---------------------------- MODULE Spec2Model ----------------------------
(***************************************************************************)
(* count-fasta-rs: the streaming FASTA statistics engine.                  *)
(*                                                                         *)
(*   src/src/simd.rs           the byte classifier (LOOKUP, scalar loop,   *)
(*                             AVX2 / AVX-512 / NEON / SVE2 kernels)       *)
(*   src/src/process_files.rs  FastaParser (feed / finish), the reducer    *)
(*                             AnalysisResults::calculate_stats and the    *)
(*                             drivers process_buffer / process_reader     *)
(*                                                                         *)
(* Bytes are the integers 0..255.  Offsets into a slice are 0-based, as in *)
(* the Rust code; At(data, i) reads data[i].                               *)
(***************************************************************************)
EXTENDS Integers, Sequences, FiniteSets, TLC

VARIABLES
    input,     \* the bytes of the stream being processed
    pos,       \* how many bytes of input the driver has handed to feed
    parser,    \* the FastaParser
    results,   \* the AnalysisResults of the stream
    pc,        \* where the driver is: "new", "feeding", "reading", "done"
    cap,       \* capacity of the BufReader (process_reader path), 0 if none
    via,       \* the driver: "process_buffer", "process_reader", "feed"
    split,     \* a chunk boundary has fallen between a '\n' and a '>'
    no_simd,   \* the caller's "force scalar" flag
    cpu,       \* what the runtime feature probe of the host reports
    line,      \* classifier run: the slice given to the kernel
    addr,      \* classifier run: address of the slice start, mod 64
    impl,      \* classifier run: which implementation ran
    triple,    \* classifier run: the (gc, n, seq_chars) it returned
    rec_lengths,  \* reducer run: the lengths given to calculate_stats
    any_file,     \* adapter run: the file process_any_file is given
    any_format,   \* adapter run: the FileFormat the path was matched to
    any_out,      \* adapter run: what process_any_file returned
    batch,        \* process_files: the list of files
    opt_threads,  \* process_files: the caller's thread count, an option
    topo,         \* process_files: what num_cpus reports
    pool,         \* process_files: the value of available_threads
    tasks,        \* process_files: per file, the state of its task
    done_order,   \* process_files: the tasks in the order they completed
    collected,    \* process_files: the Vec<AnalysisResults> returned
    errlog,       \* process_files: the lines written to stderr
    feed_data,    \* feed call: the data it was given
    feed_consumed, \* feed call: the local of that name
    feed_iters,   \* feed call: the turns of its outer loop so far
    feed_fault,   \* feed call: an index or a range was out of bounds
    neon_st,      \* NEON mid loop: totals, the three accumulators, iter_count
    neon_chunk,   \* NEON mid loop: the 16-byte vector loaded last
    neon_done,    \* NEON mid loop: the vectors of mid taken so far
    neon_scalar   \* NEON mid loop: update_stats_scalar of those vectors

vars == <<input, pos, parser, results, pc, cap, via, split, no_simd, cpu,
          line, addr, impl, triple, rec_lengths, any_file, any_format,
          any_out, batch, opt_threads, topo, pool, tasks, done_order,
          collected, errlog, feed_data, feed_consumed, feed_iters,
          feed_fault, neon_st, neon_chunk, neon_done, neon_scalar>>

\* the variables of the reducer run
statsVars == <<rec_lengths>>

\* the variables of the adapter run
adapterVars == <<any_file, any_format, any_out>>

\* the variables of process_files
batchVars == <<batch, opt_threads, topo, pool, tasks, done_order, collected,
               errlog>>

\* the variables of one call of feed, taken turn by turn
loopVars == <<feed_data, feed_consumed, feed_iters, feed_fault>>

\* the variables of the mid loop of update_stats_neon, taken vector by vector
neonVars == <<neon_st, neon_chunk, neon_done, neon_scalar>>

\* the variables neither the stream drivers nor the classifier runs touch
restVars == <<statsVars, adapterVars, batchVars, loopVars, neonVars>>

AdapterIdle ==
    /\ any_file = [path |-> <<>>]
    /\ any_format = "none"
    /\ any_out = [tag |-> "none"]

BatchIdle ==
    /\ batch = <<>>
    /\ opt_threads = <<>>
    /\ topo = [logical |-> 1, physical |-> 1]
    /\ pool = 0
    /\ tasks = <<>>
    /\ done_order = <<>>
    /\ collected = <<>>
    /\ errlog = <<>>

LoopIdle ==
    /\ feed_data = <<>>
    /\ feed_consumed = 0
    /\ feed_iters = 0
    /\ feed_fault = FALSE

NeonIdle ==
    /\ neon_st = <<>>
    /\ neon_chunk = <<>>
    /\ neon_done = 0
    /\ neon_scalar = <<0, 0, 0>>

\* ... and their values where they play no part
RestIdle ==
    rec_lengths = <<>> /\ AdapterIdle /\ BatchIdle /\ LoopIdle /\ NeonIdle

(***************************************************************************)
(* Bounds of the model.                                                    *)
(***************************************************************************)
\* longest input stream
MaxLen == 5
\* longest chunk a caller hands to feed directly
MaxChunk == 3
\* largest BufReader capacity of the process_reader path
MaxCap == 2
\* longest slice given to a classifier kernel
MaxLineLen == 130
\* width of usize in bits (the model's machine word)
UsizeBits == 16

\* longest stream fed turn by turn
MaxFeedLen == 4
\* longest stream fed turn by turn under the fairness condition
MaxFairLen == 3
\* most 16-byte vectors in the mid part of a slice given to update_stats_neon
MaxNeonBlocks == 257
\* most files in the list given to process_files
MaxFiles == 3
\* largest thread count a caller asks for
MaxThreads == 2
\* most logical CPUs, and most physical cores, of a host
MaxCpus == 6
\* most members in a zip archive
MaxMembers == 2
\* most records in a list given to the reducer on its own
MaxRecs == 4
\* longest record in such a list
MaxRecLen == 3

UsizeMax == 2^UsizeBits - 1

\* the bytes the parser and the test-suite inputs are made of
NL == 10
CR == 13
GT == 62
Alphabet == {GT, NL, CR, 71, 78, 65}

Min(a, b) == IF a < b THEN a ELSE b

At(data, i) == data[i + 1]

\* data[from..to] (0-based, to exclusive)
Slice(data, from, to) == SubSeq(data, from + 1, to)

(***************************************************************************)
(* simd.rs: the byte classifier                                            *)
(***************************************************************************)
\* The mutant of LOOKUP: '\r' left out of the Skip entries.
LOOKUP_NoCr(b) ==
    IF b \in {71, 103, 67, 99} THEN 1
    ELSE IF b \in {78, 110} THEN 2
    ELSE IF b \in {32, 9, 10, 45, 46} THEN 4
    ELSE 0

\* The mutant of LOOKUP: lower-case 'c' left out of the GC entries.
LOOKUP_NoLowerC(b) ==
    IF b \in {71, 103, 67} THEN 1
    ELSE IF b \in {78, 110} THEN 2
    ELSE IF b \in {32, 9, 10, 13, 45, 46} THEN 4
    ELSE 0

\* const LOOKUP: bit 0 GC, bit 1 N, bit 2 Skip
LOOKUP(b) ==
    IF b = 71 \/ b = 103 \/ b = 67 \/ b = 99 THEN 1
    ELSE IF b = 78 \/ b = 110 THEN 2
    ELSE IF b = 32 \/ b = 9 \/ b = 10 \/ b = 13 \/ b = 45 \/ b = 46 THEN 4
    ELSE 0

\* The mutant of ScalarIncr: seq_chars is incremented for Skip bytes too.
ScalarIncr_CountSkips(b) ==
    LET val == LOOKUP(b)
    IN  <<val % 2, (val \div 2) % 2, 1>>

\* one iteration of the scalar loop: the three increments for byte b
ScalarIncr(b) ==
    LET val == LOOKUP(b)
    IN  <<val % 2, (val \div 2) % 2, 1 - (val \div 4)>>

Add3(x, y) == <<x[1] + y[1], x[2] + y[2], x[3] + y[3]>>

RECURSIVE ScalarRange(_, _, _)
\* the for loop of update_stats_scalar over the sub-slice data[lo..hi]: the
\* sum of the increments of its bytes.  The range is summed by halves (the
\* three sums are plain additions of 0 and 1, far below the word size), to
\* keep the evaluation shallow.
ScalarRange(data, lo, hi) ==
    IF lo >= hi THEN <<0, 0, 0>>
    ELSE IF lo + 1 = hi THEN ScalarIncr(At(data, lo))
    ELSE LET mid == (lo + hi) \div 2
         IN  Add3(ScalarRange(data, lo, mid), ScalarRange(data, mid, hi))

update_stats_scalar(data) == ScalarRange(data, 0, Len(data))


\* slice::align_to::<V>() for a vector type of w bytes on a slice of n bytes
\* starting at address a: the lengths <<head, mid (in vectors), tail>>
align_to(a, n, w) ==
    LET offset == (w - (a % w)) % w
    IN  IF offset > n THEN <<n, 0, 0>>
        ELSE <<offset, (n - offset) \div w, (n - offset) % w>>

\* b | 0x20 on one byte lane (v_case_mask)
OrCaseMask(b) == IF (b \div 32) % 2 = 1 THEN b ELSE b + 32

\* lane of is_gc: the folded byte equals 'g' or 'c'
IsGcLane(b) == LET v == OrCaseMask(b) IN v = 103 \/ v = 99

\* lane of is_n: the folded byte equals 'n'
IsNLane(b) == OrCaseMask(b) = 110

\* The mutant of IsSkippedLane: the six comparisons made on the case-folded
\* vector v instead of the raw chunk.
IsSkippedLane_Folded(b) ==
    LET v == OrCaseMask(b)
    IN  v = 32 \/ v = 9 \/ v = 10 \/ v = 13 \/ v = 45 \/ v = 46

\* lane of is_skipped: s1..s6 compare the raw chunk with ' ', '\t', '\n',
\* '\r', '-', '.'
IsSkippedLane(b) ==
    b = 32 \/ b = 9 \/ b = 10 \/ b = 13 \/ b = 45 \/ b = 46

\* one lane of the comparison mask is_gc, is_n or is_skipped
LaneMask(mask, b) ==
    CASE mask = "is_gc"      -> IsGcLane(b)
      [] mask = "is_n"       -> IsNLane(b)
      [] mask = "is_skipped" -> IsSkippedLane(b)

\* count_ones of a comparison mask over the w-byte vector at off
CountLanes(data, off, w, mask) ==
    Cardinality({j \in 0..(w - 1) : LaneMask(mask, At(data, off + j))})

RECURSIVE X86MidLoop(_, _, _, _, _)
\* "for &chunk in mid" of update_stats_avx2 (w = 32) and update_stats_avx512
\* (w = 64): k vectors left, the next one at off
X86MidLoop(data, off, k, w, acc) ==
    IF k = 0 THEN acc
    ELSE X86MidLoop(data, off + w, k - 1, w,
            Add3(acc, <<CountLanes(data, off, w, "is_gc"),
                        CountLanes(data, off, w, "is_n"),
                        w - CountLanes(data, off, w, "is_skipped")>>))

\* head (scalar), mid (vectors of w bytes), tail (scalar)
X86Kernel(data, a, w) ==
    LET parts == align_to(a, Len(data), w)
        head  == ScalarRange(data, 0, parts[1])
        mid   == X86MidLoop(data, parts[1], parts[2], w, head)
        tailAt == parts[1] + parts[2] * w
    IN  Add3(mid, ScalarRange(data, tailAt, tailAt + parts[3]))

update_stats_avx2(data, a) == X86Kernel(data, a, 32)

update_stats_avx512(data, a) == X86Kernel(data, a, 64)

\* vaddq_u8(acc, vandq_u8(mask, v_one)): per-lane 8-bit add, wrapping
NeonAccumulate(acc, data, off, mask) ==
    [j \in 0..15 |->
        (acc[j] + (IF LaneMask(mask, At(data, off + j)) THEN 1 ELSE 0)) % 256]

RECURSIVE SumLanes(_, _)
SumLanes(acc, j) == IF j < 0 THEN 0 ELSE acc[j] + SumLanes(acc, j - 1)

\* vaddlvq_u8: the horizontal sum of the 16 lanes
vaddlvq_u8(acc) == SumLanes(acc, 15)

ZeroLanes == [j \in 0..15 |-> 0]

\* The mutant of NeonBlock: the accumulators are reduced one vector late.
NeonBlock_LateFlush(st, data, off) ==
    LET gc == NeonAccumulate(st.gc, data, off, "is_gc")
        n  == NeonAccumulate(st.n, data, off, "is_n")
        sk == NeonAccumulate(st.sk, data, off, "is_skipped")
        it == st.iter + 1
    IN  IF it = 256
        THEN [tot |-> Add3(st.tot, <<vaddlvq_u8(gc), vaddlvq_u8(n),
                                     256 * 16 - vaddlvq_u8(sk)>>),
              gc |-> ZeroLanes, n |-> ZeroLanes, sk |-> ZeroLanes,
              iter |-> 0]
        ELSE [tot |-> st.tot, gc |-> gc, n |-> n, sk |-> sk, iter |-> it]

\* the body of "for &chunk in mid" of update_stats_neon for the vector at
\* off; st holds the totals, the three vector accumulators and iter_count
NeonBlock(st, data, off) ==
    LET gc == NeonAccumulate(st.gc, data, off, "is_gc")
        n  == NeonAccumulate(st.n, data, off, "is_n")
        sk == NeonAccumulate(st.sk, data, off, "is_skipped")
        it == st.iter + 1
    IN  IF it = 255
        THEN [tot |-> Add3(st.tot, <<vaddlvq_u8(gc), vaddlvq_u8(n),
                                     255 * 16 - vaddlvq_u8(sk)>>),
              gc |-> ZeroLanes, n |-> ZeroLanes, sk |-> ZeroLanes,
              iter |-> 0]
        ELSE [tot |-> st.tot, gc |-> gc, n |-> n, sk |-> sk, iter |-> it]

\* "Final reduction of accumulated values" of update_stats_neon
NeonFinal(st) ==
    [st EXCEPT !.tot = Add3(st.tot,
                <<vaddlvq_u8(st.gc), vaddlvq_u8(st.n),
                  st.iter * 16 - vaddlvq_u8(st.sk)>>)]

RECURSIVE NeonMidLoop(_, _, _, _)
\* "for &chunk in mid" of update_stats_neon, k vectors left, the next one at
\* off.  Returns st after the final reduction.
NeonMidLoop(data, off, k, st) ==
    IF k = 0 THEN NeonFinal(st)
    ELSE NeonMidLoop(data, off + 16, k - 1, NeonBlock(st, data, off))

update_stats_neon(data, a) ==
    LET parts == align_to(a, Len(data), 16)
        head  == ScalarRange(data, 0, parts[1])
        mid   == NeonMidLoop(data, parts[1], parts[2],
                    [tot |-> head, gc |-> ZeroLanes, n |-> ZeroLanes,
                     sk |-> ZeroLanes, iter |-> 0])
        tailAt == parts[1] + parts[2] * 16
    IN  Add3(mid.tot, ScalarRange(data, tailAt, tailAt + parts[3]))

\* cntp of a comparison under the governing predicate p0 = whilelt(0, n):
\* the lanes j < n of the vl-byte vector loaded at ptr
SveCount(data, ptr, n, vl, S) ==
    Cardinality({j \in 0..(Min(n, vl) - 1) : At(data, ptr + j) \in S})

RECURSIVE SveLoop(_, _, _, _, _)
\* "while len > 0" of update_stats_sve2 for a hardware vector of vl bytes;
\* acc = <<gc_total, n_total, skipped_total>>
SveLoop(data, ptr, n, vl, acc) ==
    IF n <= 0 THEN acc
    ELSE LET actual_processed == Min(n, vl)
         IN  SveLoop(data, ptr + actual_processed, n - actual_processed, vl,
                Add3(acc, <<SveCount(data, ptr, n, vl, {71, 103, 67, 99}),
                            SveCount(data, ptr, n, vl, {78, 110}),
                            SveCount(data, ptr, n, vl,
                                     {32, 9, 10, 13, 45, 46})>>))

update_stats_sve2(data, vl) ==
    LET t == SveLoop(data, 0, Len(data), vl, <<0, 0, 0>>)
    IN  <<t[1], t[2], Len(data) - t[3]>>

\* What the feature probes of a host can report.  vl is the SVE vector
\* length in bytes (0 when there is none).
Cpus ==
    { [arch |-> "x86",     feats |-> {},                    vl |-> 0],
      [arch |-> "x86",     feats |-> {"avx2"},              vl |-> 0],
      [arch |-> "x86",     feats |-> {"avx2", "avx512bw"},  vl |-> 0],
      [arch |-> "aarch64", feats |-> {"neon"},              vl |-> 0],
      [arch |-> "aarch64", feats |-> {"neon", "sve2"},      vl |-> 16],
      [arch |-> "aarch64", feats |-> {"neon", "sve2"},      vl |-> 32],
      [arch |-> "other",   feats |-> {},                    vl |-> 0] }

\* the kernel simd::update_stats selects
Dispatch(ns, c) ==
    IF ns THEN "scalar"
    ELSE IF c.arch = "x86" /\ "avx512bw" \in c.feats THEN "avx512"
    ELSE IF c.arch = "x86" /\ "avx2" \in c.feats THEN "avx2"
    ELSE IF c.arch = "aarch64" /\ "sve2" \in c.feats THEN "sve2"
    ELSE IF c.arch = "aarch64" /\ "neon" \in c.feats THEN "neon"
    ELSE "scalar"

RunKernel(k, data, a, vl) ==
    CASE k = "scalar" -> update_stats_scalar(data)
      [] k = "avx2"   -> update_stats_avx2(data, a)
      [] k = "avx512" -> update_stats_avx512(data, a)
      [] k = "neon"   -> update_stats_neon(data, a)
      [] k = "sve2"   -> update_stats_sve2(data, vl)

\* simd::update_stats(line, no_simd) on a host c, the slice at address a
simd_update_stats(data, a, ns, c) == RunKernel(Dispatch(ns, c), data, a, c.vl)

(***************************************************************************)
(* process_files.rs: AnalysisResults and the reducer                       *)
(***************************************************************************)
\* AnalysisResults::new (the filename is a label and is left out)
AnalysisResultsNew ==
    [total_length |-> 0, sequence_count |-> 0, gc_count |-> 0, n_count |-> 0,
     n25 |-> 0, n25_sequence_count |-> 0,
     n50 |-> 0, n50_sequence_count |-> 0,
     n75 |-> 0, n75_sequence_count |-> 0,
     largest_contig |-> 0, shortest_contig |-> UsizeMax]

\* usize arithmetic (wrapping, as in a release build)
Wrap(x) == x % (UsizeMax + 1)

RECURSIVE SumSeq(_)
\* lengths.iter().sum()
SumSeq(s) == IF s = <<>> THEN 0 ELSE Wrap(Head(s) + SumSeq(Tail(s)))

RECURSIVE Insert_Ascending(_, _)
\* The mutant of Insert: the sequence is kept ascending.
Insert_Ascending(x, s) ==
    IF s = <<>> THEN <<x>>
    ELSE IF x <= Head(s) THEN <<x>> \o s
    ELSE <<Head(s)>> \o Insert_Ascending(x, Tail(s))

RECURSIVE Insert(_, _)
\* x put into the descending sequence s
Insert(x, s) ==
    IF s = <<>> THEN <<x>>
    ELSE IF x >= Head(s) THEN <<x>> \o s
    ELSE <<Head(s)>> \o Insert(x, Tail(s))

\* The mutant of SortDesc: the list is ranked in the order it arrived.
SortDesc_Unsorted(s) == s

RECURSIVE SortDesc(_)
\* lengths.sort_unstable_by(|a, b| b.cmp(a))
SortDesc(s) == IF s = <<>> THEN <<>> ELSE Insert(Head(s), SortDesc(Tail(s)))

\* "total_length * 3 / 4" of calculate_stats and of calc_nq_stats, in usize
N75Threshold(total) == Wrap(total * 3) \div 4

RECURSIVE StatsLoop_Strict(_, _, _, _, _)
\* The mutant of StatsLoop: the three thresholds have to be exceeded, not
\* reached.
StatsLoop_Strict(sorted, i, cum, total, r) ==
    IF i >= Len(sorted) THEN r
    ELSE LET length == At(sorted, i)
             c  == Wrap(cum + length)
             r1 == IF r.n25 = 0 /\ c > total \div 4
                   THEN [r EXCEPT !.n25 = length, !.n25_sequence_count = i + 1]
                   ELSE r
             r2 == IF r1.n50 = 0 /\ c > total \div 2
                   THEN [r1 EXCEPT !.n50 = length, !.n50_sequence_count = i + 1]
                   ELSE r1
         IN  IF r2.n75 = 0 /\ c > N75Threshold(total)
             THEN [r2 EXCEPT !.n75 = length, !.n75_sequence_count = i + 1]
             ELSE StatsLoop_Strict(sorted, i + 1, c, total, r2)

RECURSIVE StatsLoop(_, _, _, _, _)
\* the for loop of calculate_stats over the sorted lengths, from 0-based
\* index i, with cumulative_length cum and the results r so far
StatsLoop(sorted, i, cum, total, r) ==
    IF i >= Len(sorted) THEN r
    ELSE LET length == At(sorted, i)
             c  == Wrap(cum + length)
             r1 == IF r.n25 = 0 /\ c >= total \div 4
                   THEN [r EXCEPT !.n25 = length, !.n25_sequence_count = i + 1]
                   ELSE r
             r2 == IF r1.n50 = 0 /\ c >= total \div 2
                   THEN [r1 EXCEPT !.n50 = length, !.n50_sequence_count = i + 1]
                   ELSE r1
         IN  IF r2.n75 = 0 /\ c >= N75Threshold(total)
             THEN [r2 EXCEPT !.n75 = length, !.n75_sequence_count = i + 1]
             ELSE StatsLoop(sorted, i + 1, c, total, r2)

\* AnalysisResults::calculate_stats(&mut self, lengths)
calculate_stats(r, lengths) ==
    IF lengths = <<>> THEN r
    ELSE LET total  == SumSeq(lengths)
             sorted == SortDesc(lengths)
             r0 == [r EXCEPT !.total_length = total,
                             !.sequence_count = Len(lengths),
                             !.largest_contig = sorted[1],
                             !.shortest_contig = sorted[Len(sorted)]]
         IN  StatsLoop(sorted, 0, 0, total, r0)

\* The mutant of AddCounts: the fields of the triple are mixed up, n_count
\* grows by seq_chars.
AddCounts_NCountsAll(r, t) ==
    [r |-> [r EXCEPT !.gc_count = Wrap(r.gc_count + t[1]),
                     !.n_count = Wrap(r.n_count + t[3])],
     seq_chars |-> t[3]]

\* "results.gc_count += gc; results.n_count += n; seq_chars" of update_stats,
\* for the triple t = (gc, n, seq_chars) the classifier returned
AddCounts(r, t) ==
    [r |-> [r EXCEPT !.gc_count = Wrap(r.gc_count + t[1]),
                     !.n_count = Wrap(r.n_count + t[2])],
     seq_chars |-> t[3]]

\* fn update_stats(line, results, no_simd): adds the slice's gc and n to the
\* results and returns them with seq_chars.  a is the address of the slice.
update_stats(data, a, r, ns, c) ==
    AddCounts(r, simd_update_stats(data, a, ns, c))

(***************************************************************************)
(* process_files.rs: FastaParser                                           *)
(***************************************************************************)
\* FastaParser::new
FastaParserNew ==
    [lengths |-> <<>>, current_sequence_length |-> 0, in_header |-> FALSE,
     last_char_was_newline |-> TRUE, started |-> FALSE]

None == -1

RECURSIVE memchr(_, _, _)
\* memchr(needle, &data[from..]): the offset of the first needle relative to
\* from, or None
memchr(needle, data, from) ==
    IF from >= Len(data) THEN None
    ELSE IF At(data, from) = needle THEN 0
    ELSE LET rest == memchr(needle, data, from + 1)
         IN  IF rest = None THEN None ELSE rest + 1

RECURSIVE NextHeaderStart(_, _)
\* the "while let Some(pos) = memchr(...)" search of feed from search_pos:
\* the offset of a '\n' that is followed by '>' inside data, or None
NextHeaderStart(data, search_pos) ==
    LET p == memchr(NL, data, search_pos)
    IN  IF p = None THEN None
        ELSE LET actual_pos == search_pos + p
             IN  IF actual_pos + 1 < Len(data)
                 THEN IF At(data, actual_pos + 1) = GT THEN actual_pos
                      ELSE NextHeaderStart(data, actual_pos + 1)
                 ELSE None

\* The mutant of NewLastNewline: the flag is cleared whenever the span runs
\* to the end of the buffer.
NewLastNewline_Cleared(data) == FALSE

\* new_last_newline of the None arm: data[len - 1] == b'\n'
NewLastNewline(data) == At(data, Len(data) - 1) = NL

\* The mutant of HeaderScan: the header line is given to the classifier.
HeaderScan_Counted(data, consumed, st, ns, c) ==
    LET p == memchr(NL, data, consumed)
        stop == IF p = None THEN Len(data) ELSE consumed + p + 1
        u == update_stats(Slice(data, consumed, stop), consumed, st.r, ns, c)
    IN  [consumed |-> stop,
         p |-> [st.p EXCEPT !.in_header = (p = None),
                            !.last_char_was_newline = (p # None)],
         r |-> u.r]

\* The mutant of HeaderScan: the end of the header leaves the flag as it was.
HeaderScan_FlagKept(data, consumed, st, ns, c) ==
    LET p == memchr(NL, data, consumed)
    IN  IF p # None
        THEN [consumed |-> consumed + p + 1,
              p |-> [st.p EXCEPT !.in_header = FALSE],
              r |-> st.r]
        ELSE [consumed |-> Len(data),
              p |-> [st.p EXCEPT !.last_char_was_newline = FALSE],
              r |-> st.r]

\* feed, the in_header arm: find the end of the header
HeaderScan(data, consumed, st, ns, c) ==
    LET p == memchr(NL, data, consumed)
    IN  IF p # None
        THEN [consumed |-> consumed + p + 1,
              p |-> [st.p EXCEPT !.in_header = FALSE,
                                 !.last_char_was_newline = TRUE],
              r |-> st.r]
        ELSE [consumed |-> Len(data),
              p |-> [st.p EXCEPT !.last_char_was_newline = FALSE],
              r |-> st.r]

\* The mutant of HeaderStart: the current length is pushed at the first
\* header too.
HeaderStart_AlwaysPush(data, consumed, st) ==
    [consumed |-> consumed + 1,
     p |-> [st.p EXCEPT
              !.lengths = Append(st.p.lengths, st.p.current_sequence_length),
              !.current_sequence_length = 0,
              !.started = TRUE, !.in_header = TRUE,
              !.last_char_was_newline = FALSE],
     r |-> [st.r EXCEPT !.sequence_count = Wrap(st.r.sequence_count + 1)]]

\* feed, the arm "last_char_was_newline && data[consumed] == b'>'"
HeaderStart(data, consumed, st) ==
    LET p1 == IF st.p.started
              THEN [st.p EXCEPT
                      !.lengths = Append(st.p.lengths,
                                         st.p.current_sequence_length),
                      !.current_sequence_length = 0]
              ELSE st.p
    IN  [consumed |-> consumed + 1,
         p |-> [p1 EXCEPT !.started = TRUE, !.in_header = TRUE,
                          !.last_char_was_newline = FALSE],
         r |-> [st.r EXCEPT !.sequence_count = Wrap(st.r.sequence_count + 1)]]

\* The mutant of SpanCounted: consumed is left where it was.
SpanCounted_Stuck(st, chunk_end, new_last_newline, u) ==
    [consumed |-> st.consumed,
     p |-> [st.p EXCEPT
              !.current_sequence_length =
                  Wrap(st.p.current_sequence_length + u.seq_chars),
              !.last_char_was_newline = new_last_newline],
     r |-> u.r]

\* the "if self.started" block of the sequence arm and the assignments after
\* it, for the u = [r, seq_chars] update_stats returned on the span
SpanCounted(st, chunk_end, new_last_newline, u) ==
    [consumed |-> chunk_end,
     p |-> [st.p EXCEPT
              !.current_sequence_length =
                  Wrap(st.p.current_sequence_length + u.seq_chars),
              !.last_char_was_newline = new_last_newline],
     r |-> u.r]

\* The mutant of SequenceSpan: bytes before the first header are counted too.
SequenceSpan_Unguarded(data, consumed, st, ns, c) ==
    LET nh == NextHeaderStart(data, consumed)
        stop == IF nh = None THEN Len(data) ELSE nh
    IN  SpanCounted(st, IF nh = None THEN Len(data) ELSE nh + 1,
            IF nh = None THEN NewLastNewline(data) ELSE TRUE,
            update_stats(Slice(data, consumed, stop), consumed, st.r, ns, c))

\* feed, the arm "still in sequence": the span up to the next "\n>" or to the
\* end of the buffer goes to update_stats
SequenceSpan(data, consumed, st, ns, c) ==
    LET nh == NextHeaderStart(data, consumed)
        stop == IF nh = None THEN Len(data) ELSE nh
        chunk_end == IF nh = None THEN Len(data) ELSE nh + 1
        new_last_newline == IF nh = None THEN NewLastNewline(data) ELSE TRUE
    IN  IF st.p.started
        THEN SpanCounted(st, chunk_end, new_last_newline,
                update_stats(Slice(data, consumed, stop), consumed, st.r,
                             ns, c))
        ELSE [consumed |-> chunk_end,
              p |-> [st.p EXCEPT !.last_char_was_newline = new_last_newline],
              r |-> st.r]

RECURSIVE FeedLoop(_, _, _, _)
\* "while consumed < len" of feed; st = [consumed, p: the parser, r: the
\* results]
FeedLoop(data, st, ns, c) ==
    IF st.consumed >= Len(data) THEN st
    ELSE FeedLoop(data,
            IF st.p.in_header
            THEN HeaderScan(data, st.consumed, st, ns, c)
            ELSE IF st.p.last_char_was_newline /\ At(data, st.consumed) = GT
            THEN HeaderStart(data, st.consumed, st)
            ELSE SequenceSpan(data, st.consumed, st, ns, c),
            ns, c)

\* FastaParser::feed(&mut self, data, results, no_simd)
feed(p, r, data, ns, c) ==
    FeedLoop(data, [consumed |-> 0, p |-> p, r |-> r], ns, c)

\* The mutant of finish: the pending record is never pushed.
finish_NoPush(p, r) == calculate_stats(r, p.lengths)

\* FastaParser::finish(self, results)
finish(p, r) ==
    calculate_stats(r,
        IF p.current_sequence_length > 0
        THEN Append(p.lengths, p.current_sequence_length)
        ELSE p.lengths)

\* process_buffer(data, results, no_simd)
process_buffer(data, r, ns, c) ==
    LET st == feed(FastaParserNew, r, data, ns, c)
    IN  finish(st.p, st.r)

(***************************************************************************)
(* The stream drivers: one stream, from construction to the finalized      *)
(* AnalysisResults.                                                        *)
(***************************************************************************)
\* the streams of n bytes
Inputs(n) == [1..n -> Alphabet]

\* the hosts the stream specification runs on: (no_simd, cpu)
StreamHosts ==
    { <<TRUE,  [arch |-> "x86", feats |-> {"avx2"}, vl |-> 0]>>,
      <<FALSE, [arch |-> "x86", feats |-> {"avx2"}, vl |-> 0]>> }

classifierVars == <<line, addr, impl, triple>>

\* the chunk boundary after n bytes separates a '\n' from a '>'
SplitsNlGt(n) ==
    /\ n > 0
    /\ n < Len(input)
    /\ input[n] = NL
    /\ input[n + 1] = GT

Init ==
    /\ \E n \in 0..MaxLen : input \in Inputs(n)
    /\ pos = 0
    /\ parser = FastaParserNew
    /\ results = AnalysisResultsNew
    /\ pc = "new"
    /\ cap = 0
    /\ via = "none"
    /\ split = FALSE
    /\ \E h \in StreamHosts : no_simd = h[1] /\ cpu = h[2]
    /\ line = <<>>
    /\ addr = 0
    /\ impl = "none"
    /\ triple = <<0, 0, 0>>
    /\ RestIdle

\* process_fasta_file with the mmap taken: process_buffer on the whole file
ProcessBuffer ==
    /\ pc = "new"
    /\ \E st \in {feed(FastaParserNew, results, input, no_simd, cpu)} :
          /\ parser' = st.p
          /\ results' = finish(st.p, st.r)
    /\ pos' = Len(input)
    /\ pc' = "done"
    /\ via' = "process_buffer"
    /\ UNCHANGED <<input, cap, split, no_simd, cpu, classifierVars, restVars>>

\* the parser is fed the next k bytes of the stream
FeedStep(k) ==
    \E st \in {feed(parser, results, Slice(input, pos, pos + k),
                    no_simd, cpu)} :
        /\ parser' = st.p
        /\ results' = st.r
        /\ pos' = pos + k
        /\ split' = (split \/ SplitsNlGt(pos + k))

\* a caller of FastaParser::feed hands it a chunk of any size, 0 included
FeedChunk ==
    /\ pc \in {"new", "feeding"}
    /\ \E k \in 0..Min(MaxChunk, Len(input) - pos) : FeedStep(k)
    /\ pc' = "feeding"
    /\ via' = "feed"
    /\ UNCHANGED <<input, cap, no_simd, cpu, classifierVars, restVars>>

\* ... and calls FastaParser::finish once the stream is exhausted
Finish ==
    /\ pc = "feeding"
    /\ pos = Len(input)
    /\ results' = finish(parser, results)
    /\ pc' = "done"
    /\ UNCHANGED <<input, pos, parser, cap, via, split, no_simd, cpu,
                   classifierVars, restVars>>

\* process_reader is entered with a BufReader of capacity c
ReaderOpen ==
    /\ pc = "new"
    /\ cap' \in 1..MaxCap
    /\ pc' = "reading"
    /\ via' = "process_reader"
    /\ UNCHANGED <<input, pos, parser, results, split, no_simd, cpu,
                   classifierVars, restVars>>

\* one turn of the loop of process_reader: fill_buf returns 1..cap bytes,
\* they are fed and consumed
ReaderFill ==
    /\ pc = "reading"
    /\ \E k \in 1..Min(cap, Len(input) - pos) : FeedStep(k)
    /\ UNCHANGED <<input, pc, cap, via, no_simd, cpu, classifierVars, restVars>>

\* fill_buf returns an empty buffer: break, then parser.finish
ReaderEof ==
    /\ pc = "reading"
    /\ pos = Len(input)
    /\ results' = finish(parser, results)
    /\ pc' = "done"
    /\ UNCHANGED <<input, pos, parser, cap, via, split, no_simd, cpu,
                   classifierVars, restVars>>

Next ==
    \/ ProcessBuffer
    \/ FeedChunk
    \/ Finish
    \/ ReaderOpen
    \/ ReaderFill
    \/ ReaderEof

Spec == Init /\ [][Next]_vars

(***************************************************************************)
(* The classifier on its own: one slice, at one address, given to one of   *)
(* the implementations or to the dispatching simd::update_stats.           *)
(***************************************************************************)
\* The slices: n consecutive byte values from a ("ramp0", "ramp128": every
\* byte value 0..255 occurs), and the FASTA-like pattern of
\* tests::test_alignment_and_offsets cut at offset a of its buffer.
LineOf(family, a, n) ==
    CASE family = "ramp0"   -> [i \in 1..n |-> (i - 1) % 256]
      [] family = "ramp128" -> [i \in 1..n |-> (128 + i - 1) % 256]
      [] family = "fasta"   ->
            [i \in 1..n |->
                LET k == a + i - 1
                IN  IF k % 7 = 0 THEN 10
                    ELSE IF k % 5 = 0 THEN 78
                    ELSE IF k % 3 = 0 THEN 71
                    ELSE 65]

\* the addresses (mod 64) the slices of a family start at: the pattern is cut
\* at every offset; the ramps start aligned, one byte off either way, and
\* in the middle of a 64-byte vector
SliceAddrs(family) == IF family = "fasta" THEN 0..63 ELSE {0, 1, 33, 63}

streamVars == <<input, pos, parser, results, cap, via, split>>

InitClassifier ==
    /\ input = <<>>
    /\ pos = 0
    /\ parser = FastaParserNew
    /\ results = AnalysisResultsNew
    /\ pc = "classify"
    /\ cap = 0
    /\ via = "none"
    /\ split = FALSE
    /\ no_simd = FALSE
    /\ cpu = [arch |-> "other", feats |-> {}, vl |-> 0]
    /\ \E family \in {"ramp0", "ramp128", "fasta"} :
          /\ addr \in SliceAddrs(family)
          /\ \E n \in 0..MaxLineLen : line = LineOf(family, addr, n)
    /\ impl = "none"
    /\ triple = <<0, 0, 0>>
    /\ RestIdle

\* update_stats_scalar(line)
RunScalar ==
    /\ pc = "classify"
    /\ impl' = "update_stats_scalar"
    /\ triple' = update_stats_scalar(line)
    /\ pc' = "classified"
    /\ UNCHANGED <<streamVars, restVars, no_simd, cpu, line, addr>>

\* update_stats_avx2(line)
RunAvx2 ==
    /\ pc = "classify"
    /\ impl' = "update_stats_avx2"
    /\ triple' = update_stats_avx2(line, addr)
    /\ pc' = "classified"
    /\ UNCHANGED <<streamVars, restVars, no_simd, cpu, line, addr>>

\* update_stats_avx512(line)
RunAvx512 ==
    /\ pc = "classify"
    /\ impl' = "update_stats_avx512"
    /\ triple' = update_stats_avx512(line, addr)
    /\ pc' = "classified"
    /\ UNCHANGED <<streamVars, restVars, no_simd, cpu, line, addr>>

\* update_stats_neon(line)
RunNeon ==
    /\ pc = "classify"
    /\ impl' = "update_stats_neon"
    /\ triple' = update_stats_neon(line, addr)
    /\ pc' = "classified"
    /\ UNCHANGED <<streamVars, restVars, no_simd, cpu, line, addr>>

\* update_stats_sve2(line) on a host whose vectors are 16 or 32 bytes long
RunSve2 ==
    /\ pc = "classify"
    /\ \E c \in {h \in Cpus : "sve2" \in h.feats} :
          /\ cpu' = c
          /\ triple' = update_stats_sve2(line, c.vl)
    /\ impl' = "update_stats_sve2"
    /\ pc' = "classified"
    /\ UNCHANGED <<streamVars, restVars, no_simd, line, addr>>

\* simd::update_stats(line, no_simd) on any host
RunUpdateStats ==
    /\ pc = "classify"
    /\ \E ns \in BOOLEAN, c \in Cpus :
          /\ no_simd' = ns
          /\ cpu' = c
          /\ triple' = simd_update_stats(line, addr, ns, c)
    /\ impl' = "update_stats"
    /\ pc' = "classified"
    /\ UNCHANGED <<streamVars, restVars, line, addr>>

NextClassifier ==
    \/ RunScalar
    \/ RunAvx2
    \/ RunAvx512
    \/ RunNeon
    \/ RunSve2
    \/ RunUpdateStats

SpecClassifier == InitClassifier /\ [][NextClassifier]_vars

(***************************************************************************)
(* process_files.rs: the format adapters.                                  *)
(*                                                                         *)
(* A path is a sequence of characters.  What the file system and the       *)
(* decoders answer for a path is a file descriptor:                        *)
(*   path       the path                                                   *)
(*   open_ok    open_file succeeds                                         *)
(*   mmap_ok    Mmap::map succeeds (plain files)                           *)
(*   advise_ok  mmap.advise succeeds (plain files)                         *)
(*   src        the byte source behind the reader: fills, the non-empty    *)
(*              buffers successive fill_buf calls return, and end, "eof"   *)
(*              or "err", what the call after them returns                 *)
(*   archive    ok: ZipArchive::new succeeds; members: the entries, each   *)
(*              with name, is_file, index_ok (by_index succeeds) and src   *)
(*   naf        ok: Decoder::from_path succeeds; records: the decoded      *)
(*              records, each ok or not, with its length and sequence      *)
(*              (options)                                                  *)
(* An option is <<>> (None) or <<x>> (Some(x)).                            *)
(***************************************************************************)
NoneOpt == <<>>

Some(x) == <<x>>

RECURSIVE LastIndexOf(_, _, _)
\* the last position i <= k of the character ch in s, 0 when there is none
LastIndexOf(s, ch, k) ==
    IF k = 0 THEN 0
    ELSE IF s[k] = ch THEN k
    ELSE LastIndexOf(s, ch, k - 1)

\* Path::file_name: the final component; None when the path ends in ".."
file_name(path) ==
    LET slash == LastIndexOf(path, "/", Len(path))
        name  == SubSeq(path, slash + 1, Len(path))
    IN  IF name = <<>> \/ name = <<".", ".">> THEN NoneOpt ELSE Some(name)

\* Path::extension: None when there is no file name, no embedded '.', or
\* the only '.' is the first character; otherwise what follows the final '.'
extension(path) ==
    LET fn == file_name(path)
    IN  IF fn = NoneOpt THEN NoneOpt
        ELSE LET dot == LastIndexOf(fn[1], ".", Len(fn[1]))
             IN  IF dot <= 1 THEN NoneOpt
                 ELSE Some(SubSeq(fn[1], dot + 1, Len(fn[1])))

\* pub const VALID_FILES: [&str; 3] = ["fa", "fasta", "fna"]
VALID_FILES == <<(<<"f", "a">>), (<<"f", "a", "s", "t", "a">>),
                 (<<"f", "n", "a">>)>>

\* VALID_FILES.contains(&ext)
IsValidExt(ext) == \E k \in 1..Len(VALID_FILES) : VALID_FILES[k] = ext

\* The mutant of from_path: the "bgzip" spelling is not matched.
from_path_NoBgzip(path) ==
    LET e == extension(path)
    IN  IF e = Some(<<"g", "z">>) THEN "Gzip"
        ELSE IF e = Some(<<"x", "z">>) THEN "Xz"
        ELSE IF e = Some(<<"b", "z", "2">>) THEN "Bzip2"
        ELSE IF e = Some(<<"b", "g", "z">>) THEN "Bgzip"
        ELSE IF e = Some(<<"z", "i", "p">>) THEN "Zip"
        ELSE IF e = Some(<<"n", "a", "f">>) THEN "Naf"
        ELSE IF e # NoneOpt /\ IsValidExt(e[1]) THEN "Fasta"
        ELSE "Unknown"

\* FileFormat::from_path
from_path(path) ==
    LET e == extension(path)
    IN  IF e = Some(<<"g", "z">>) THEN "Gzip"
        ELSE IF e = Some(<<"x", "z">>) THEN "Xz"
        ELSE IF e = Some(<<"b", "z", "2">>) THEN "Bzip2"
        ELSE IF e = Some(<<"b", "g", "z">>)
                \/ e = Some(<<"b", "g", "z", "i", "p">>) THEN "Bgzip"
        ELSE IF e = Some(<<"z", "i", "p">>) THEN "Zip"
        ELSE IF e = Some(<<"n", "a", "f">>) THEN "Naf"
        ELSE IF e # NoneOpt /\ IsValidExt(e[1]) THEN "Fasta"
        ELSE "Unknown"

\* AnalysisResults::new(filename): the label and the counters
Labelled(filename, r) == [filename |-> filename, r |-> r]

\* AnalysisResults::for_path(path)
for_path(path) ==
    Labelled(IF file_name(path) = NoneOpt
             THEN <<"u", "n", "k", "n", "o", "w", "n">>
             ELSE file_name(path)[1],
             AnalysisResultsNew)

\* io::Result<Vec<AnalysisResults>>, with what the call did on the way:
\* whether it called open_file and the lines it wrote to stderr
Ok(vec, opened, stderr) ==
    [tag |-> "Ok", vec |-> vec, opened |-> opened, stderr |-> stderr]

Err(opened, stderr) == [tag |-> "Err", opened |-> opened, stderr |-> stderr]

RECURSIVE ReaderLoop_ErrAsEof(_, _, _, _, _)
\* The mutant of ReaderLoop: an error of fill_buf ends the loop as an empty
\* buffer does.
ReaderLoop_ErrAsEof(src, k, st, ns, c) ==
    IF k > Len(src.fills) \/ src.fills[k] = <<>>
    THEN [tag |-> "Ok", r |-> finish(st.p, st.r)]
    ELSE ReaderLoop_ErrAsEof(src, k + 1,
            feed(st.p, st.r, src.fills[k], ns, c), ns, c)

RECURSIVE ReaderLoop(_, _, _, _, _)
\* the loop of process_reader from the k-th fill_buf call on, and the
\* parser.finish after it; st = [p: the parser, r: the results]
ReaderLoop(src, k, st, ns, c) ==
    IF k > Len(src.fills)
    THEN IF src.end = "err" THEN [tag |-> "Err"]
         ELSE [tag |-> "Ok", r |-> finish(st.p, st.r)]
    ELSE IF src.fills[k] = <<>>
    THEN [tag |-> "Ok", r |-> finish(st.p, st.r)]
    ELSE ReaderLoop(src, k + 1, feed(st.p, st.r, src.fills[k], ns, c), ns, c)

\* fn process_reader(reader, results, no_simd) -> io::Result<()>
process_reader(src, r, ns, c) ==
    ReaderLoop(src, 1, [p |-> FastaParserNew, r |-> r], ns, c)

\* "process_reader(reader, &mut results, no_simd)?; Ok(vec![results])"
OkOne(label, rd, opened) ==
    IF rd.tag = "Err" THEN Err(opened, <<>>)
    ELSE Ok(<<Labelled(label.filename, rd.r)>>, opened, <<>>)

\* fn process_decoded_stream(file, buffer_size, decoder_factory, no_simd)
process_decoded_stream(file, ns, c) ==
    IF ~file.open_ok THEN Err(TRUE, <<>>)
    ELSE OkOne(for_path(file.path),
               process_reader(file.src, for_path(file.path).r, ns, c), TRUE)

process_gz_file(file, ns, c) == process_decoded_stream(file, ns, c)

process_xz_file(file, ns, c) == process_decoded_stream(file, ns, c)

process_bz2_file(file, ns, c) == process_decoded_stream(file, ns, c)

process_bgzip_file(file, ns, c) == process_decoded_stream(file, ns, c)

RECURSIVE Concat(_, _)
\* the bytes of a file: its first k buffers one after the other
Concat(fills, k) == IF k = 0 THEN <<>> ELSE Concat(fills, k - 1) \o fills[k]

\* pub fn process_fasta_file(file, buffer_size, no_simd)
process_fasta_file(file, ns, c) ==
    IF ~file.open_ok THEN Err(TRUE, <<>>)
    ELSE IF file.mmap_ok
    THEN IF ~file.advise_ok THEN Err(TRUE, <<>>)
         ELSE Ok(<<Labelled(for_path(file.path).filename,
                     process_buffer(Concat(file.src.fills,
                                           Len(file.src.fills)),
                                    for_path(file.path).r, ns, c))>>,
                 TRUE, <<>>)
    ELSE OkOne(for_path(file.path),
               process_reader(file.src, for_path(file.path).r, ns, c), TRUE)

\* str::ends_with
ends_with(name, suffix) ==
    /\ Len(name) >= Len(suffix)
    /\ SubSeq(name, Len(name) - Len(suffix) + 1, Len(name)) = suffix

\* VALID_FILES.iter().any(|&ext| file_name.ends_with(ext))
EndsWithValidExt(name) ==
    \E k \in 1..Len(VALID_FILES) : ends_with(name, VALID_FILES[k])

\* one qualifying member of the archive, read by process_reader with the
\* outcome rd: an error is written to stderr and the member skipped,
\* otherwise its result is pushed; st = [vec: all_results, stderr]
ZipMember(st, name, rd) ==
    IF rd.tag = "Err"
    THEN [vec |-> st.vec, stderr |-> Append(st.stderr, name)]
    ELSE [vec |-> Append(st.vec, Labelled(file_name(name)[1], rd.r)),
          stderr |-> st.stderr]

RECURSIVE ZipLoop(_, _, _, _, _)
\* "for i in 0..archive.len()" of process_zip_file from the i-th member on
\* (1-based), and the Ok(all_results) after it
ZipLoop(members, i, st, ns, c) ==
    IF i > Len(members) THEN Ok(st.vec, TRUE, st.stderr)
    ELSE IF ~members[i].index_ok THEN Err(TRUE, st.stderr)
    ELSE IF members[i].is_file /\ EndsWithValidExt(members[i].name)
    THEN ZipLoop(members, i + 1,
            ZipMember(st, members[i].name,
                process_reader(members[i].src, AnalysisResultsNew, ns, c)),
            ns, c)
    ELSE ZipLoop(members, i + 1, st, ns, c)

\* pub fn process_zip_file(file, buffer_size, no_simd)
process_zip_file(file, ns, c) ==
    IF ~file.open_ok THEN Err(TRUE, <<>>)
    ELSE IF ~file.archive.ok THEN Err(TRUE, <<>>)
    ELSE ZipLoop(file.archive.members, 1, [vec |-> <<>>, stderr |-> <<>>],
                 ns, c)

\* one decoded record of a nucleotide archive: its declared length goes to
\* total_length, the extremes and lengths, its sequence to update_stats;
\* st = [r: the results, lengths]
NafRecord(st, seq_length, u) ==
    [r |-> [u.r EXCEPT
              !.total_length = Wrap(st.r.total_length + seq_length),
              !.largest_contig = IF seq_length > st.r.largest_contig
                                 THEN seq_length ELSE st.r.largest_contig,
              !.shortest_contig = Min(st.r.shortest_contig, seq_length)],
     lengths |-> Append(st.lengths, seq_length)]

RECURSIVE NafLoop(_, _, _, _, _)
\* "for may_seq in decoder" of process_naf_file from the i-th record on
\* (1-based), then sequence_count = lengths.len() and calculate_stats
NafLoop(records, i, st, ns, c) ==
    IF i > Len(records)
    THEN [tag |-> "Ok",
          r |-> calculate_stats(
                    [st.r EXCEPT !.sequence_count = Len(st.lengths)],
                    st.lengths)]
    ELSE IF ~records[i].ok THEN [tag |-> "Err"]
    ELSE IF records[i].length = NoneOpt THEN [tag |-> "Err"]
    ELSE IF records[i].length[1] > UsizeMax THEN [tag |-> "Err"]
    ELSE IF records[i].sequence = NoneOpt THEN [tag |-> "Err"]
    ELSE NafLoop(records, i + 1,
            NafRecord(st, records[i].length[1],
                update_stats(records[i].sequence[1], 0, st.r, ns, c)),
            ns, c)

\* pub fn process_naf_file(file, no_simd)
process_naf_file(file, ns, c) ==
    IF ~file.naf.ok THEN Err(TRUE, <<>>)
    ELSE OkOne(for_path(file.path),
               NafLoop(file.naf.records, 1,
                       [r |-> for_path(file.path).r, lengths |-> <<>>],
                       ns, c),
               TRUE)

\* pub fn process_any_file(file, buffer_size, no_simd)
process_any_file(file, ns, c) ==
    LET format == from_path(file.path)
    IN  CASE format = "Gzip"    -> process_gz_file(file, ns, c)
          [] format = "Zip"     -> process_zip_file(file, ns, c)
          [] format = "Xz"      -> process_xz_file(file, ns, c)
          [] format = "Bzip2"   -> process_bz2_file(file, ns, c)
          [] format = "Bgzip"   -> process_bgzip_file(file, ns, c)
          [] format = "Naf"     -> process_naf_file(file, ns, c)
          [] format = "Fasta"   -> process_fasta_file(file, ns, c)
          [] format = "Unknown" -> Ok(<<>>, FALSE, <<>>)

(***************************************************************************)
(* One file given to process_any_file.                                     *)
(***************************************************************************)
\* the paths, each with the extension a reader of the name sees ("" when
\* there is none)
PathTable ==
    << [path |-> <<"a", ".", "f", "a">>,                     ext |-> "fa"],
       [path |-> <<"d", "/", "b", ".", "f", "a", "s", "t", "a">>,
                                                             ext |-> "fasta"],
       [path |-> <<"c", ".", "f", "n", "a">>,                ext |-> "fna"],
       [path |-> <<"a", ".", "f", "a", ".", "g", "z">>,      ext |-> "gz"],
       [path |-> <<"e", ".", "x", "z">>,                     ext |-> "xz"],
       [path |-> <<"f", ".", "b", "z", "2">>,                ext |-> "bz2"],
       [path |-> <<"g", ".", "b", "g", "z">>,                ext |-> "bgz"],
       [path |-> <<"h", ".", "b", "g", "z", "i", "p">>,      ext |-> "bgzip"],
       [path |-> <<"i", ".", "z", "i", "p">>,                ext |-> "zip"],
       [path |-> <<"j", ".", "n", "a", "f">>,                ext |-> "naf"],
       [path |-> <<"k", ".", "t", "x", "t">>,                ext |-> "txt"],
       [path |-> <<"x", ".", "F", "A">>,                     ext |-> "FA"],
       [path |-> <<"a", ".", "f", "a", ".", "b", "a", "k">>, ext |-> "bak"],
       [path |-> <<"s", "o", "f", "a">>,                     ext |-> ""],
       [path |-> <<"d", ".", "g", "z", "/", "r", "e", "a", "d", "s">>,
                                                             ext |-> ""],
       [path |-> <<".", "g", "z">>,                          ext |-> ""] >>

\* the paths whose extension is among exts
PathsOf(exts) ==
    {PathTable[k].path : k \in {j \in 1..Len(PathTable) :
                                    PathTable[j].ext \in exts}}

\* ">a\nGA\n" and ">b\nNNT"
FastaA == <<62, 97, 10, 71, 65, 10>>
FastaB == <<62, 98, 10, 78, 78, 84>>

\* the byte sources: exhausted at once, one or two buffers, and each of
\* them ending in end of file or in an error
Sources ==
    {[fills |-> f, end |-> e] :
        f \in {<<>>, <<FastaA>>, <<SubSeq(FastaA, 1, 3), SubSeq(FastaA, 4, 6)>>,
               <<FastaB>>},
        e \in {"eof", "err"}}

NoArchive == [ok |-> FALSE, members |-> <<>>]
NoNaf == [ok |-> FALSE, records |-> <<>>]
NoSource == [fills |-> <<>>, end |-> "err"]

\* the files that are one byte stream
StreamFiles ==
    {[path |-> p, open_ok |-> o, mmap_ok |-> m, advise_ok |-> a, src |-> s,
      archive |-> NoArchive, naf |-> NoNaf] :
        p \in PathsOf({"fa", "fasta", "fna", "gz", "xz", "bz2", "bgz",
                       "bgzip", "txt", "FA", "bak", ""}),
        o \in BOOLEAN, m \in BOOLEAN, a \in BOOLEAN, s \in Sources}

\* the entries of an archive: a directory, members whose name has a FASTA
\* extension, members whose name has another or none; an entry that cannot
\* be opened by index has no source
Members ==
    {[name |-> n, is_file |-> ~ends_with(n, <<"/">>), index_ok |-> TRUE,
      src |-> s] :
        n \in {<<"a", ".", "f", "a">>,
               <<"d", "/", "b", ".", "f", "a", "s", "t", "a">>,
               <<"c", ".", "f", "n", "a">>,
               <<"s", "o", "f", "a">>,
               <<"r", ".", "t", "x", "t">>,
               <<"d", "/">>},
        s \in {[fills |-> <<FastaA>>, end |-> "eof"],
               [fills |-> <<SubSeq(FastaB, 1, 3)>>, end |-> "err"]}}
    \cup
    {[name |-> n, is_file |-> TRUE, index_ok |-> FALSE, src |-> NoSource] :
        n \in {<<"c", ".", "f", "n", "a">>, <<"r", ".", "t", "x", "t">>}}

\* the zip files
ZipFiles ==
    {[path |-> p, open_ok |-> o, mmap_ok |-> FALSE, advise_ok |-> FALSE,
      src |-> NoSource, archive |-> [ok |-> k, members |-> ms],
      naf |-> NoNaf] :
        p \in PathsOf({"zip"}), o \in BOOLEAN, k \in BOOLEAN,
        ms \in UNION {[1..n -> Members] : n \in 0..MaxMembers}}

\* the records a nucleotide-archive decoder yields
NafGood == [ok |-> TRUE, length |-> Some(3), sequence |-> Some(<<71, 78, 84>>)]
NafRecordLists ==
    { <<>>, <<NafGood>>, <<NafGood, NafGood>>,
      <<NafGood, [NafGood EXCEPT !.ok = FALSE]>>,
      <<NafGood, [NafGood EXCEPT !.length = NoneOpt]>>,
      <<NafGood, [NafGood EXCEPT !.length = Some(UsizeMax + 1)]>>,
      <<NafGood, [NafGood EXCEPT !.sequence = NoneOpt]>> }

\* the nucleotide archives
NafFiles ==
    {[path |-> p, open_ok |-> k, mmap_ok |-> FALSE, advise_ok |-> FALSE,
      src |-> NoSource, archive |-> NoArchive,
      naf |-> [ok |-> k, records |-> rs]] :
        p \in PathsOf({"naf"}), k \in BOOLEAN, rs \in NafRecordLists}

InitAdapter ==
    /\ input = <<>>
    /\ pos = 0
    /\ parser = FastaParserNew
    /\ results = AnalysisResultsNew
    /\ pc = "adapter"
    /\ cap = 0
    /\ via = "none"
    /\ split = FALSE
    /\ \E h \in StreamHosts : no_simd = h[1] /\ cpu = h[2]
    /\ line = <<>>
    /\ addr = 0
    /\ impl = "none"
    /\ triple = <<0, 0, 0>>
    /\ rec_lengths = <<>>
    /\ any_file \in StreamFiles \cup ZipFiles \cup NafFiles
    /\ any_format = "none"
    /\ any_out = [tag |-> "none"]
    /\ BatchIdle
    /\ LoopIdle
    /\ NeonIdle

\* process_any_file(file, buffer_size, no_simd)
ProcessAnyFile ==
    /\ pc = "adapter"
    /\ any_format' = from_path(any_file.path)
    /\ any_out' = process_any_file(any_file, no_simd, cpu)
    /\ pc' = "adapted"
    /\ UNCHANGED <<streamVars, no_simd, cpu, classifierVars, statsVars,
                   loopVars, neonVars, any_file, batchVars>>

NextAdapter == ProcessAnyFile

SpecAdapter == InitAdapter /\ [][NextAdapter]_vars

(***************************************************************************)
(* main.rs: determine_threads and process_files.                           *)
(*                                                                         *)
(* main.rs has its own per-format functions and its own line-based         *)
(* process_reader; where a name is taken by process_files.rs they are      *)
(* written main_<name>.                                                    *)
(***************************************************************************)
Max(a, b) == IF a > b THEN a ELSE b

\* (num_cpus::get() as f32 * 0.9).round() as usize.  f32::round rounds
\* halves away from zero; n * 0.9 computed in f32 is within half an ulp of
\* 9n/10, so it rounds as the exact product does.
round_0_9(n) == (9 * n + 5) \div 10

\* (num_cpus::get_physical() as f32 * 0.75).round() as usize (exact in f32)
round_0_75(n) == (3 * n + 2) \div 4

\* The mutant of determine_threads: the smaller of the two estimates is
\* taken.
determine_threads_Smaller(files, threads, cpus) ==
    IF threads # NoneOpt THEN threads[1]
    ELSE Min(Min(round_0_9(cpus.logical), round_0_75(cpus.physical)),
             Len(files))

\* fn determine_threads(files, threads) on a host with cpus.logical logical
\* CPUs and cpus.physical physical cores
determine_threads(files, threads, cpus) ==
    IF threads # NoneOpt THEN threads[1]
    ELSE Min(Max(round_0_9(cpus.logical), round_0_75(cpus.physical)),
             Len(files))

RECURSIVE ReadAll(_, _, _)
\* what the BufReader hands out before its source ends: the bytes of the
\* fills up to the first empty one, and whether the source then failed
ReadAll(src, k, acc) ==
    IF k > Len(src.fills)
    THEN [tag |-> IF src.end = "err" THEN "Err" ELSE "Ok", data |-> acc]
    ELSE IF src.fills[k] = <<>> THEN [tag |-> "Ok", data |-> acc]
    ELSE ReadAll(src, k + 1, acc \o src.fills[k])

RECURSIVE FirstNewline(_, _)
\* the 1-based place of the first newline of data at or after i, else 0
FirstNewline(data, i) ==
    IF i > Len(data) THEN 0
    ELSE IF data[i] = NL THEN i
    ELSE FirstNewline(data, i + 1)

\* data cut after its first n bytes
CutAt(data, n) ==
    [head |-> SubSeq(data, 1, n), rest |-> SubSeq(data, n + 1, Len(data))]

RECURSIVE LinesOf(_)
\* the lines successive reader.read_until(b'\n', &mut line) calls give
LinesOf(data) ==
    IF data = <<>> THEN <<>>
    ELSE IF FirstNewline(data, 1) = 0 THEN <<data>>
    ELSE <<CutAt(data, FirstNewline(data, 1)).head>>
         \o LinesOf(CutAt(data, FirstNewline(data, 1)).rest)

RECURSIVE CountIn(_, _)
\* bytecount::count over the bytes of S
CountIn(ln, S) ==
    IF ln = <<>> THEN 0
    ELSE (IF Head(ln) \in S THEN 1 ELSE 0) + CountIn(Tail(ln), S)

\* fn process_sequence_line(line, results, offset): the results, and the
\* length returned as n
process_sequence_line(ln, r, offset) ==
    [r |-> [r EXCEPT
              !.gc_count = Wrap(@ + CountIn(ln, {71, 103, 67, 99})),
              !.n_count = Wrap(@ + CountIn(ln, {78, 110}))],
     n |-> IF ln[Len(ln)] = NL THEN Wrap(Len(ln) - offset)
           ELSE Len(ln)]

\* fn calc_nq_stats(lengths, results)
calc_nq_stats(lengths, r) ==
    StatsLoop(SortDesc(lengths), 0, 0, SumSeq(lengths), r)

\* the sequence that ends is entered: total_length, the extremes and
\* lengths; st = [r, cur: current_sequence_length, lengths]
EnterSequence(st) ==
    [r |-> [st.r EXCEPT
              !.total_length = Wrap(@ + st.cur),
              !.largest_contig = Max(@, st.cur),
              !.shortest_contig = Min(@, st.cur)],
     cur |-> 0,
     lengths |-> Append(st.lengths, st.cur)]

\* the else branch of the loop: a sequence line is counted; u is what
\* process_sequence_line gave
AddLine(st, u) ==
    [r |-> u.r, cur |-> Wrap(st.cur + u.n), lengths |-> st.lengths]

\* the then branch of the loop: a header line
HeaderLine(st) ==
    [r |-> [st.r EXCEPT !.sequence_count = Wrap(@ + 1)],
     cur |-> st.cur, lengths |-> st.lengths]

RECURSIVE LineLoop(_, _, _, _)
\* "while reader.read_until(b'\n', &mut line)? > 0" of main.rs's
\* process_reader from the k-th line on
LineLoop(lines, k, st, offset) ==
    IF k > Len(lines) THEN st
    ELSE IF lines[k][1] = GT
    THEN LineLoop(lines, k + 1, HeaderLine(EnterSequence(st)), offset)
    ELSE LineLoop(lines, k + 1,
            AddLine(st, process_sequence_line(lines[k], st.r, offset)),
            offset)

\* after the loop: a last sequence that is not empty is entered, then
\* calc_nq_stats
AfterLines(st) ==
    IF st.cur > 0
    THEN calc_nq_stats(EnterSequence(st).lengths, EnterSequence(st).r)
    ELSE calc_nq_stats(st.lengths, st.r)

\* the offset taken from the first line
OffsetOf(first) ==
    IF Len(first) >= 2 /\ first[Len(first) - 1] = CR
                      /\ first[Len(first)] = NL
    THEN Some(2)
    ELSE IF first[Len(first)] = NL THEN Some(1)
    ELSE NoneOpt

\* main.rs's process_reader on the lines of a source that did not fail
ReadLines(lines, r) ==
    IF lines = <<>> THEN r
    ELSE IF OffsetOf(lines[1]) = NoneOpt
    THEN [r EXCEPT !.sequence_count = Wrap(@ + 1)]
    ELSE AfterLines(LineLoop(lines, 2,
            [r |-> [r EXCEPT !.sequence_count = Wrap(@ + 1)],
             cur |-> 0, lengths |-> <<>>],
            OffsetOf(lines[1])[1]))

\* the verdict of process_reader on what the source gave: all is
\* ReadAll(src, 1, <<>>)
ReaderVerdict(all, r) ==
    IF all.tag = "Err" THEN [tag |-> "Err"]
    ELSE [tag |-> "Ok", r |-> ReadLines(LinesOf(all.data), r)]

\* fn process_reader(reader, results) of main.rs
main_process_reader(src, r) == ReaderVerdict(ReadAll(src, 1, <<>>), r)

\* AnalysisResults { filename, shortest_contig: usize::MAX,
\* ..Default::default() }
MainResults(name) == Labelled(name, AnalysisResultsNew)

\* the body the single-stream functions of main.rs share: the results are
\* made, the file is opened, the reader is run
main_process_stream(file) ==
    IF ~file.open_ok THEN Err(TRUE, <<>>)
    ELSE OkOne(MainResults(file_name(file.path)[1]),
               main_process_reader(file.src, AnalysisResultsNew), TRUE)

main_process_fasta_file(file) == main_process_stream(file)

main_process_gz_file(file) == main_process_stream(file)

main_process_xz_file(file) == main_process_stream(file)

main_process_bz2_file(file) == main_process_stream(file)

\* reader.read_to_end(&mut buffer)? fails as the reader over the stream
\* does, and gives the same bytes
main_process_bgzip_file(file) == main_process_stream(file)

RECURSIVE MainZipLoop(_, _, _)
\* "for i in 0..archive.len()" of main.rs's process_zip_file from the i-th
\* member on (1-based), and the Ok(all_results) after it
MainZipLoop(members, i, st) ==
    IF i > Len(members) THEN Ok(st.vec, TRUE, st.stderr)
    ELSE IF ~members[i].index_ok THEN Err(TRUE, st.stderr)
    ELSE IF members[i].is_file /\ EndsWithValidExt(members[i].name)
    THEN MainZipLoop(members, i + 1,
            ZipMember(st, members[i].name,
                main_process_reader(members[i].src, AnalysisResultsNew)))
    ELSE MainZipLoop(members, i + 1, st)

\* fn process_zip_file(file, buffer_size) of main.rs
main_process_zip_file(file) ==
    IF ~file.open_ok THEN Err(TRUE, <<>>)
    ELSE IF ~file.archive.ok THEN Err(TRUE, <<>>)
    ELSE MainZipLoop(file.archive.members, 1, [vec |-> <<>>, stderr |-> <<>>])

\* Result::unwrap_or_default, with the lines the call wrote to stderr
unwrap_or_default(res) ==
    [vec |-> IF res.tag = "Ok" THEN res.vec ELSE <<>>, stderr |-> res.stderr]

\* file.extension().and_then(|e| e.to_str()).unwrap_or("")
ExtOrEmpty(path) ==
    IF extension(path) = NoneOpt THEN <<>> ELSE extension(path)[1]

\* the closure process_files gives to flat_map
FileTask(file) ==
    LET ext == ExtOrEmpty(file.path)
    IN  IF ext = <<"g", "z">>
        THEN unwrap_or_default(main_process_gz_file(file))
        ELSE IF ext = <<"z", "i", "p">>
        THEN unwrap_or_default(main_process_zip_file(file))
        ELSE IF ext = <<"x", "z">>
        THEN unwrap_or_default(main_process_xz_file(file))
        ELSE IF ext = <<"b", "z", "2">>
        THEN unwrap_or_default(main_process_bz2_file(file))
        ELSE IF ext = <<"b", "g", "z">> \/ ext = <<"b", "g", "z", "i", "p">>
        THEN unwrap_or_default(main_process_bgzip_file(file))
        ELSE IF IsValidExt(ext)
        THEN unwrap_or_default(main_process_fasta_file(file))
        ELSE [vec |-> <<>>, stderr |-> <<>>]

\* the number of workers of the pool: ThreadPoolBuilder::num_threads(0)
\* leaves the choice to rayon, which takes the number of logical CPUs
Workers == IF pool = 0 THEN topo.logical ELSE pool

Running == {i \in 1..Len(tasks) : tasks[i].st = "running"}

\* the lines a task wrote to stderr, each with the task that wrote it
Tagged(i, lines) == [k \in 1..Len(lines) |-> [task |-> i, text |-> lines[k]]]

RECURSIVE Collected_Reversed(_, _)
\* The mutant of Collected: the results of the last task come first.
Collected_Reversed(ts, k) ==
    IF k = 0 THEN <<>> ELSE ts[k].vec \o Collected_Reversed(ts, k - 1)

RECURSIVE Collected(_, _)
\* collect(): the results of the first k tasks, in the order of the list
Collected(ts, k) ==
    IF k = 0 THEN <<>> ELSE Collected(ts, k - 1) \o ts[k].vec

\* the files of a batch: two valid plain files (one memory-mapped, one read
\* through the BufReader), a corrupt gzip stream, a path that does not
\* exist, a file with an unsupported extension, an archive whose second
\* member fails while it is read and an archive of two valid members
PlainMapped ==
    [path |-> PathTable[1].path, open_ok |-> TRUE, mmap_ok |-> TRUE,
     advise_ok |-> TRUE, src |-> [fills |-> <<FastaA>>, end |-> "eof"],
     archive |-> NoArchive, naf |-> NoNaf]
PlainBuffered ==
    [path |-> PathTable[2].path, open_ok |-> TRUE, mmap_ok |-> FALSE,
     advise_ok |-> FALSE, src |-> [fills |-> <<FastaB>>, end |-> "eof"],
     archive |-> NoArchive, naf |-> NoNaf]
CorruptGz ==
    [path |-> PathTable[4].path, open_ok |-> TRUE, mmap_ok |-> FALSE,
     advise_ok |-> FALSE, src |-> [fills |-> <<>>, end |-> "err"],
     archive |-> NoArchive, naf |-> NoNaf]
MissingFna ==
    [path |-> PathTable[3].path, open_ok |-> FALSE, mmap_ok |-> FALSE,
     advise_ok |-> FALSE, src |-> NoSource,
     archive |-> NoArchive, naf |-> NoNaf]
TextFile ==
    [path |-> PathTable[11].path, open_ok |-> TRUE, mmap_ok |-> TRUE,
     advise_ok |-> TRUE, src |-> [fills |-> <<FastaA>>, end |-> "eof"],
     archive |-> NoArchive, naf |-> NoNaf]
ZipOfTwo ==
    [path |-> PathTable[9].path, open_ok |-> TRUE, mmap_ok |-> FALSE,
     advise_ok |-> FALSE, src |-> NoSource,
     archive |-> [ok |-> TRUE,
                  members |->
                    << [name |-> <<"a", ".", "f", "a">>, is_file |-> TRUE,
                        index_ok |-> TRUE,
                        src |-> [fills |-> <<FastaA>>, end |-> "eof"]],
                       [name |-> <<"c", ".", "f", "n", "a">>,
                        is_file |-> TRUE, index_ok |-> TRUE,
                        src |-> [fills |-> <<SubSeq(FastaB, 1, 3)>>,
                                 end |-> "err"]] >>],
     naf |-> NoNaf]

ZipClean ==
    [path |-> PathTable[9].path, open_ok |-> TRUE, mmap_ok |-> FALSE,
     advise_ok |-> FALSE, src |-> NoSource,
     archive |-> [ok |-> TRUE,
                  members |->
                    << [name |-> <<"c", ".", "f", "n", "a">>,
                        is_file |-> TRUE, index_ok |-> TRUE,
                        src |-> [fills |-> <<FastaB>>, end |-> "eof"]],
                       [name |-> <<"a", ".", "f", "a">>, is_file |-> TRUE,
                        index_ok |-> TRUE,
                        src |-> [fills |-> <<FastaA>>, end |-> "eof"]] >>],
     naf |-> NoNaf]

BatchFiles ==
    {PlainMapped, PlainBuffered, CorruptGz, MissingFna, TextFile, ZipOfTwo,
     ZipClean}

\* what the closure gives on each of these files
FileTasks == [f \in BatchFiles |-> FileTask(f)]

\* the hosts process_files runs on
BatchTopologies ==
    {[logical |-> 1, physical |-> 1], [logical |-> 4, physical |-> 2]}

\* the caller's Option<usize>
ThreadOptions == {NoneOpt} \cup {Some(k) : k \in 0..MaxThreads}

InitBatch ==
    /\ input = <<>>
    /\ pos = 0
    /\ parser = FastaParserNew
    /\ results = AnalysisResultsNew
    /\ pc = "batch"
    /\ cap = 0
    /\ via = "none"
    /\ split = FALSE
    /\ no_simd = FALSE
    /\ cpu = [arch |-> "x86", feats |-> {"avx2"}, vl |-> 0]
    /\ line = <<>>
    /\ addr = 0
    /\ impl = "none"
    /\ triple = <<0, 0, 0>>
    /\ rec_lengths = <<>>
    /\ AdapterIdle
    /\ LoopIdle
    /\ NeonIdle
    /\ \E n \in 0..MaxFiles : batch \in [1..n -> BatchFiles]
    /\ opt_threads \in ThreadOptions
    /\ topo \in BatchTopologies
    /\ pool = 0
    /\ tasks = <<>>
    /\ done_order = <<>>
    /\ collected = <<>>
    /\ errlog = <<>>

offBatch ==
    <<streamVars, no_simd, cpu, classifierVars, statsVars, adapterVars,
      loopVars, neonVars>>

\* process_files up to pool.install: the pool is sized and built, and one
\* task per file is handed to it
Install ==
    /\ pc = "batch"
    /\ pool' = determine_threads(batch, opt_threads, topo)
    /\ tasks' = [i \in 1..Len(batch) |->
                    [st |-> "queued", vec |-> <<>>]]
    /\ pc' = "installed"
    /\ UNCHANGED <<offBatch, batch, opt_threads, topo, done_order, collected,
                   errlog>>

\* an idle worker of the pool takes the task of file i
TaskStart(i) ==
    /\ pc = "installed"
    /\ tasks[i].st = "queued"
    /\ Cardinality(Running) < Workers
    /\ tasks' = [tasks EXCEPT ![i].st = "running"]
    /\ UNCHANGED <<offBatch, pc, batch, opt_threads, topo, pool, done_order,
                   collected, errlog>>

\* the closure runs on file i, to its end
TaskComplete(i) ==
    /\ pc = "installed"
    /\ tasks[i].st = "running"
    /\ \E res \in {FileTasks[batch[i]]} :
          /\ tasks' = [tasks EXCEPT ![i] = [st |-> "done", vec |-> res.vec]]
          /\ errlog' = errlog \o Tagged(i, res.stderr)
    /\ done_order' = Append(done_order, i)
    /\ UNCHANGED <<offBatch, pc, batch, opt_threads, topo, pool, collected>>

\* The mutant of Collect: the results are taken without waiting for the
\* tasks.
Collect_Early ==
    /\ pc = "installed"
    /\ collected' = Collected(tasks, Len(tasks))
    /\ pc' = "returned"
    /\ UNCHANGED <<offBatch, batch, opt_threads, topo, pool, tasks,
                   done_order, errlog>>

\* collect() returns once every task is done; process_files returns
Collect ==
    /\ pc = "installed"
    /\ \A i \in 1..Len(tasks) : tasks[i].st = "done"
    /\ collected' = Collected(tasks, Len(tasks))
    /\ pc' = "returned"
    /\ UNCHANGED <<offBatch, batch, opt_threads, topo, pool, tasks,
                   done_order, errlog>>

NextBatch ==
    \/ Install
    \/ \E i \in 1..Len(tasks) : TaskStart(i)
    \/ \E i \in 1..Len(tasks) : TaskComplete(i)
    \/ Collect

SpecBatch == InitBatch /\ [][NextBatch]_vars

(***************************************************************************)
(* determine_threads on its own.                                           *)
(***************************************************************************)
InitThreads ==
    /\ input = <<>>
    /\ pos = 0
    /\ parser = FastaParserNew
    /\ results = AnalysisResultsNew
    /\ pc = "threads"
    /\ cap = 0
    /\ via = "none"
    /\ split = FALSE
    /\ no_simd = FALSE
    /\ cpu = [arch |-> "x86", feats |-> {"avx2"}, vl |-> 0]
    /\ line = <<>>
    /\ addr = 0
    /\ impl = "none"
    /\ triple = <<0, 0, 0>>
    /\ rec_lengths = <<>>
    /\ AdapterIdle
    /\ LoopIdle
    /\ NeonIdle
    /\ \E n \in 0..MaxFiles : batch = [i \in 1..n |-> PlainMapped]
    /\ opt_threads \in ThreadOptions
    /\ topo \in [logical : 1..MaxCpus, physical : 1..MaxCpus]
    /\ pool = 0
    /\ tasks = <<>>
    /\ done_order = <<>>
    /\ collected = <<>>
    /\ errlog = <<>>

\* let available_threads = determine_threads(&files, threads)
DetermineThreads ==
    /\ pc = "threads"
    /\ pool' = determine_threads(batch, opt_threads, topo)
    /\ pc' = "threads_done"
    /\ UNCHANGED <<offBatch, batch, opt_threads, topo, tasks, done_order,
                   collected, errlog>>

NextThreads == DetermineThreads

SpecThreads == InitThreads /\ [][NextThreads]_vars

(***************************************************************************)
(* FastaParser::feed turn by turn: every turn of "while consumed < len" is *)
(* a step, and the index and range expressions of the turn are recorded.   *)
(***************************************************************************)
\* data[i]
Idx(i) == [from |-> i, to |-> i + 1]

\* &data[from..to]
Rng(from, to) == [from |-> from, to |-> to]

\* the bounds check of the slice of length len
InBounds(a, len) == 0 <= a.from /\ a.from <= a.to /\ a.to <= len

\* the in_header arm: memchr(b'\n', &data[consumed..])
HeaderScanAccesses(data, c0) == {Rng(c0, Len(data))}

\* "self.last_char_was_newline && data[consumed] == b'>'": the index is read
\* when the flag is set
ArmTestAccesses(data, c0, p) ==
    IF p.last_char_was_newline THEN {Idx(c0)} ELSE {}

RECURSIVE SearchAccesses_Unguarded(_, _)
\* The mutant of SearchAccesses: data[actual_pos + 1] is read without the
\* test "actual_pos + 1 < len".
SearchAccesses_Unguarded(data, search_pos) ==
    {Rng(search_pos, Len(data))}
    \cup IF memchr(NL, data, search_pos) = None THEN {}
         ELSE {Idx(search_pos + memchr(NL, data, search_pos) + 1)}
              \cup IF search_pos + memchr(NL, data, search_pos) + 1
                        >= Len(data)
                   THEN {}
                   ELSE IF At(data, search_pos
                                    + memchr(NL, data, search_pos) + 1) = GT
                   THEN {}
                   ELSE SearchAccesses_Unguarded(data,
                            search_pos + memchr(NL, data, search_pos) + 1)

RECURSIVE SearchAccesses(_, _)
\* the "while let Some(pos) = memchr(b'\n', &data[search_pos..])" search:
\* the range of every memchr call and every data[actual_pos + 1] read
SearchAccesses(data, search_pos) ==
    {Rng(search_pos, Len(data))}
    \cup IF memchr(NL, data, search_pos) = None THEN {}
         ELSE IF search_pos + memchr(NL, data, search_pos) + 1 < Len(data)
         THEN {Idx(search_pos + memchr(NL, data, search_pos) + 1)}
              \cup IF At(data, search_pos
                                + memchr(NL, data, search_pos) + 1) = GT
                   THEN {}
                   ELSE SearchAccesses(data,
                            search_pos + memchr(NL, data, search_pos) + 1)
         ELSE {}

RECURSIVE SearchTrace(_, _)
\* the values search_pos takes in the search, one per memchr call
SearchTrace(data, search_pos) ==
    <<search_pos>>
    \o IF memchr(NL, data, search_pos) = None THEN <<>>
       ELSE IF search_pos + memchr(NL, data, search_pos) + 1 >= Len(data)
       THEN <<>>
       ELSE IF At(data, search_pos + memchr(NL, data, search_pos) + 1) = GT
       THEN <<>>
       ELSE SearchTrace(data, search_pos + memchr(NL, data, search_pos) + 1)

\* the match on next_header_start: &data[consumed..pos], or
\* &data[consumed..len] and data[len - 1]
SpanAccesses(data, c0) ==
    IF NextHeaderStart(data, c0) # None
    THEN {Rng(c0, NextHeaderStart(data, c0))}
    ELSE {Rng(c0, Len(data)), Idx(Len(data) - 1)}

\* some access of the set fails the bounds check
Faults(accesses, len) == \E a \in accesses : ~InBounds(a, len)

\* the streams fed turn by turn: 0 and 255 stand for the bytes the parser
\* does not tell apart
FeedAlphabet == {0, NL, GT, 71, 255}

\* the parser and the results as the operators of one turn take them
Turn == [consumed |-> feed_consumed, p |-> parser, r |-> results]

InitFeed ==
    /\ \E n \in 0..MaxFeedLen : input \in [1..n -> FeedAlphabet]
    /\ pos = 0
    /\ parser = FastaParserNew
    /\ results = AnalysisResultsNew
    /\ pc = "fed"
    /\ cap = 0
    /\ via = "feed"
    /\ split = FALSE
    /\ \E h \in StreamHosts : no_simd = h[1] /\ cpu = h[2]
    /\ line = <<>>
    /\ addr = 0
    /\ impl = "none"
    /\ triple = <<0, 0, 0>>
    /\ rec_lengths = <<>>
    /\ AdapterIdle
    /\ BatchIdle
    /\ LoopIdle
    /\ NeonIdle

offFeed ==
    <<input, cap, via, split, no_simd, cpu, classifierVars, statsVars,
      adapterVars, batchVars, neonVars>>

\* parser.feed(data, results, no_simd) is entered with the next k bytes of
\* the stream, k = 0 included
FeedCall ==
    /\ pc = "fed"
    /\ \E k \in 0..Min(MaxChunk, Len(input) - pos) :
          feed_data' = Slice(input, pos, pos + k)
    /\ feed_consumed' = 0
    /\ feed_iters' = 0
    /\ pc' = "turn"
    /\ UNCHANGED <<offFeed, pos, parser, results, feed_fault>>

\* what a turn leaves: st is what the arm gave, acc the accesses it made
TurnDone(st, acc) ==
    /\ feed_consumed' = st.consumed
    /\ parser' = st.p
    /\ results' = st.r
    /\ feed_iters' = feed_iters + 1
    /\ feed_fault' = (feed_fault \/ Faults(acc, Len(feed_data)))
    /\ UNCHANGED <<offFeed, pos, pc, feed_data>>

\* a turn of the loop in the in_header arm
HeaderScanTurn ==
    /\ pc = "turn"
    /\ feed_consumed < Len(feed_data)
    /\ parser.in_header
    /\ TurnDone(HeaderScan(feed_data, feed_consumed, Turn, no_simd, cpu),
                HeaderScanAccesses(feed_data, feed_consumed))

\* The mutant of HeaderStartTurn: a '>' starts a header wherever it stands.
HeaderStartTurn_AnyGt ==
    /\ pc = "turn"
    /\ feed_consumed < Len(feed_data)
    /\ ~parser.in_header
    /\ At(feed_data, feed_consumed) = GT
    /\ TurnDone(HeaderStart(feed_data, feed_consumed, Turn),
                ArmTestAccesses(feed_data, feed_consumed, parser))

\* a turn of the loop in the arm that starts a header
HeaderStartTurn ==
    /\ pc = "turn"
    /\ feed_consumed < Len(feed_data)
    /\ ~parser.in_header
    /\ parser.last_char_was_newline
    /\ At(feed_data, feed_consumed) = GT
    /\ TurnDone(HeaderStart(feed_data, feed_consumed, Turn),
                ArmTestAccesses(feed_data, feed_consumed, parser))

\* a turn of the loop in the arm "still in sequence"
SequenceSpanTurn ==
    /\ pc = "turn"
    /\ feed_consumed < Len(feed_data)
    /\ ~parser.in_header
    /\ ~(parser.last_char_was_newline /\ At(feed_data, feed_consumed) = GT)
    /\ TurnDone(SequenceSpan(feed_data, feed_consumed, Turn, no_simd, cpu),
                ArmTestAccesses(feed_data, feed_consumed, parser)
                \cup SearchAccesses(feed_data, feed_consumed)
                \cup SpanAccesses(feed_data, feed_consumed))

\* "while consumed < len" is left: feed returns
FeedReturn ==
    /\ pc = "turn"
    /\ feed_consumed >= Len(feed_data)
    /\ pos' = pos + Len(feed_data)
    /\ pc' = "fed"
    /\ UNCHANGED <<offFeed, parser, results, loopVars>>

\* parser.finish(results) once the stream is exhausted
FinishCall ==
    /\ pc = "fed"
    /\ pos = Len(input)
    /\ results' = finish(parser, results)
    /\ pc' = "finished"
    /\ UNCHANGED <<offFeed, pos, parser, loopVars>>

NextFeed ==
    \/ FeedCall
    \/ HeaderScanTurn
    \/ HeaderStartTurn
    \/ SequenceSpanTurn
    \/ FeedReturn
    \/ FinishCall

SpecFeed == InitFeed /\ [][NextFeed]_vars

\* a call of feed that has been entered keeps running: its turns and its
\* return are not put off for ever
FeedRuns ==
    WF_vars(HeaderScanTurn \/ HeaderStartTurn \/ SequenceSpanTurn
            \/ FeedReturn)

InitFeedFair == InitFeed /\ Len(input) <= MaxFairLen

SpecFeedFair == InitFeedFair /\ [][NextFeed]_vars /\ FeedRuns

(***************************************************************************)
(* The reducer on its own: calculate_stats applied to a fresh              *)
(* AnalysisResults and a list of record lengths.                           *)
(***************************************************************************)
\* the list of tests::test_calculate_stats
TestLengths == <<100, 200, 300, 400>>

InitStats ==
    /\ input = <<>>
    /\ pos = 0
    /\ parser = FastaParserNew
    /\ results = AnalysisResultsNew
    /\ pc = "reduce"
    /\ cap = 0
    /\ via = "none"
    /\ split = FALSE
    /\ no_simd = FALSE
    /\ cpu = [arch |-> "other", feats |-> {}, vl |-> 0]
    /\ line = <<>>
    /\ addr = 0
    /\ impl = "none"
    /\ triple = <<0, 0, 0>>
    /\ \/ \E n \in 0..MaxRecs : rec_lengths \in [1..n -> 0..MaxRecLen]
       \/ rec_lengths = TestLengths
    /\ AdapterIdle
    /\ LoopIdle
    /\ NeonIdle
    /\ BatchIdle

\* results.calculate_stats(rec_lengths)
CalculateStats ==
    /\ pc = "reduce"
    /\ results' = calculate_stats(results, rec_lengths)
    /\ pc' = "reduced"
    /\ UNCHANGED <<input, pos, parser, cap, via, split, no_simd, cpu,
                   classifierVars, statsVars, adapterVars, batchVars,
                   loopVars, neonVars>>

NextStats == CalculateStats

SpecStats == InitStats /\ [][NextStats]_vars

\* record lengths of large assemblies, scaled to the modelled word: any
\* MaxRecs of them still sum to less than 2^UsizeBits
WideLengths == {0, 1, 5000, 10000, 16000}

\* calculate_stats on a fresh AnalysisResults and a list of large records
InitWide ==
    /\ input = <<>>
    /\ pos = 0
    /\ parser = FastaParserNew
    /\ results = AnalysisResultsNew
    /\ pc = "reduce"
    /\ cap = 0
    /\ via = "none"
    /\ split = FALSE
    /\ no_simd = FALSE
    /\ cpu = [arch |-> "other", feats |-> {}, vl |-> 0]
    /\ line = <<>>
    /\ addr = 0
    /\ impl = "none"
    /\ triple = <<0, 0, 0>>
    /\ \E n \in 1..MaxRecs : rec_lengths \in [1..n -> WideLengths]
    /\ AdapterIdle
    /\ LoopIdle
    /\ NeonIdle
    /\ BatchIdle

SpecWide == InitWide /\ [][NextStats]_vars

(***************************************************************************)
(* The mid loop of update_stats_neon, one 16-byte vector at a time, on a   *)
(* slice that starts at a 16-byte boundary.                                *)
(***************************************************************************)
\* the vectors the loop is given: sixteen 'G', and one with a lane of every
\* kind (G N \n A c n - T C N . A g n ' ' \t)
NeonChunks ==
    { [j \in 1..16 |-> 71],
      <<71, 78, 10, 65, 99, 110, 45, 84, 67, 78, 46, 65, 103, 110, 32, 9>> }

\* the state at "for &chunk in mid": totals of an empty head, accumulators
\* of vdupq_n_u8(0), iter_count = 0
InitNeon ==
    /\ input = <<>>
    /\ pos = 0
    /\ parser = FastaParserNew
    /\ results = AnalysisResultsNew
    /\ pc = "neon"
    /\ cap = 0
    /\ via = "none"
    /\ split = FALSE
    /\ no_simd = FALSE
    /\ cpu = [arch |-> "aarch64", feats |-> {"neon"}, vl |-> 0]
    /\ line = <<>>
    /\ addr = 0
    /\ impl = "update_stats_neon"
    /\ triple = <<0, 0, 0>>
    /\ rec_lengths = <<>>
    /\ AdapterIdle
    /\ BatchIdle
    /\ LoopIdle
    /\ neon_st = [tot |-> <<0, 0, 0>>, gc |-> ZeroLanes, n |-> ZeroLanes,
                  sk |-> ZeroLanes, iter |-> 0]
    /\ neon_chunk = <<>>
    /\ neon_done = 0
    /\ neon_scalar = <<0, 0, 0>>

offNeon ==
    <<input, pos, parser, results, cap, via, split, no_simd, cpu,
      classifierVars, statsVars, adapterVars, batchVars, loopVars>>

\* one turn of "for &chunk in mid"
NeonLoad ==
    /\ pc = "neon"
    /\ neon_done < MaxNeonBlocks
    /\ \E v \in NeonChunks :
          /\ neon_st' = NeonBlock(neon_st, v, 0)
          /\ neon_chunk' = v
          /\ neon_scalar' = Add3(neon_scalar, update_stats_scalar(v))
    /\ neon_done' = neon_done + 1
    /\ UNCHANGED <<offNeon, pc>>

\* mid is exhausted: the final reduction
NeonReduce ==
    /\ pc = "neon"
    /\ neon_st' = NeonFinal(neon_st)
    /\ pc' = "neon_done"
    /\ UNCHANGED <<offNeon, neon_chunk, neon_done, neon_scalar>>

NextNeon == NeonLoad \/ NeonReduce

SpecNeon == InitNeon /\ [][NextNeon]_vars

(***************************************************************************)
(* What a stream contains, read off its bytes position by position         *)
(* (1-based), independently of the parser.                                 *)
(***************************************************************************)
GcBytes == {71, 103, 67, 99}
NBytes == {78, 110}
SkipBytes == {32, 9, 10, 13, 45, 46}

\* a '>' at the start of the stream or right after a '\n'
IsHeaderStart(s, i) == s[i] = GT /\ (i = 1 \/ s[i - 1] = NL)

\* the number of header lines that start in s[1..i]
HeadersUpTo(s, i) == Cardinality({j \in 1..i : IsHeaderStart(s, j)})

\* byte i lies on a header line: from its '>' up to and including its '\n'
InHeaderLine(s, i) ==
    \E j \in 1..i : IsHeaderStart(s, j) /\ \A k \in j..(i - 1) : s[k] # NL

\* the positions of s[1..n] that lie in a sequence body
BodyPositions(s, n) ==
    {i \in 1..n : HeadersUpTo(s, i) > 0 /\ ~InHeaderLine(s, i)}

\* how many bytes of the set B lie in the sequence bodies of s[1..n]
BodyCount(s, n, B) == Cardinality({i \in BodyPositions(s, n) : s[i] \in B})

\* the length of every record of s[1..n], in stream order
RecordLengths(s, n) ==
    [r \in 1..HeadersUpTo(s, n) |->
        Cardinality({i \in BodyPositions(s, n) :
                        HeadersUpTo(s, i) = r /\ s[i] \notin SkipBytes})]

\* the set of byte values of a slice
Bytes(s) == {s[i] : i \in DOMAIN s}

Fresh == AnalysisResultsNew

Done == pc = "done"

(***************************************************************************)
(* C1  Chunk-size invariance: however the stream was cut into chunks for   *)
(* feed (chunks of one byte, empty chunks, a cut between a '\n' and the    *)
(* '>' after it) and whatever the capacity of the BufReader of             *)
(* process_reader, the finalized AnalysisResults is the one process_buffer *)
(* computes from the whole stream as a single chunk.                       *)
(***************************************************************************)
C1_ChunkInvariance ==
    Done => results = process_buffer(input, Fresh, no_simd, cpu)

\* a stream fed in chunks, one cut between a '\n' and a '>', has been
\* finalized with two records counted
C1_Witness ==
    /\ Done
    /\ via = "feed"
    /\ split
    /\ Len(parser.lengths) >= 1
    /\ results.total_length > 0

(***************************************************************************)
(* C2  Classifier equivalence: every implementation (AVX2, AVX-512, NEON,  *)
(* SVE2) and the dispatching update_stats, with no_simd true or false,     *)
(* returns for every slice and every alignment the triple that             *)
(* update_stats_scalar returns.                                            *)
(***************************************************************************)
C2_ClassifierEquivalence ==
    pc = "classified" => triple = update_stats_scalar(line)

\* the AVX2 kernel has run on a slice with a head, two vectors and a tail,
\* holding GC, N and Skip bytes
C2_Witness ==
    /\ pc = "classified"
    /\ impl = "update_stats_avx2"
    /\ LET parts == align_to(addr, Len(line), 32)
       IN  parts[1] > 0 /\ parts[2] = 2 /\ parts[3] > 0
    /\ triple[1] > 0
    /\ triple[2] > 0
    /\ triple[3] < Len(line)

(***************************************************************************)
(* C3  update_stats_scalar returns gc = the number of bytes in G g C c,    *)
(* n = the number of bytes in N n, seq_chars = the length of the slice     *)
(* less the number of bytes in space, tab, '\n', '\r', '-', '.'; every     *)
(* other byte value counts toward seq_chars only.                          *)
(***************************************************************************)
C3_ScalarCounts ==
    impl = "update_stats_scalar" =>
        /\ triple[1] = Cardinality({i \in DOMAIN line : line[i] \in GcBytes})
        /\ triple[2] = Cardinality({i \in DOMAIN line : line[i] \in NBytes})
        /\ triple[3] = Len(line)
                - Cardinality({i \in DOMAIN line : line[i] \in SkipBytes})

\* the scalar loop has run on a slice holding NUL, '>', bytes >= 0x80,
\* ambiguity codes and all of the GC, N and Skip bytes
C3_Witness ==
    /\ impl = "update_stats_scalar"
    /\ (GcBytes \cup NBytes \cup SkipBytes \cup {0, GT, 82, 128}) \subseteq Bytes(line)

(***************************************************************************)
(* C4  Only sequence-body bytes are counted: in every state of a stream,   *)
(* gc_count and n_count are the numbers of GC and N bytes at body          *)
(* positions of the bytes fed so far, and the record lengths are the       *)
(* numbers of non-Skip bytes at the body positions of each record: no byte *)
(* of a header line and no byte before the first header contributes.       *)
(***************************************************************************)
C4_OnlyBodyCounted ==
    /\ results.gc_count = BodyCount(input, pos, GcBytes)
    /\ results.n_count = BodyCount(input, pos, NBytes)
    /\ IF parser.started
       THEN Append(parser.lengths, parser.current_sequence_length)
                = RecordLengths(input, pos)
       ELSE /\ parser.lengths = <<>>
            /\ parser.current_sequence_length = 0
            /\ HeadersUpTo(input, pos) = 0

\* a stream with letters before its first header and on its header line has
\* been fed, and a body byte was counted
C4_Witness ==
    /\ pos = Len(input)
    /\ Len(input) >= 5
    /\ input[1] = 71
    /\ input[2] = NL
    /\ input[3] = GT
    /\ input[4] = 71
    /\ InHeaderLine(input, 4)
    /\ results.gc_count = 0
    /\ parser.started

(***************************************************************************)
(* C5  After finish, total_length is the number of non-Skip bytes in the   *)
(* sequence bodies; Skip bytes inside sequence lines add nothing to        *)
(* total_length, gc_count or n_count.                                      *)
(***************************************************************************)
C5_TotalLength ==
    Done =>
        /\ results.total_length
              = BodyCount(input, Len(input), (0..255) \ SkipBytes)
        /\ results.gc_count = BodyCount(input, Len(input), GcBytes)
        /\ results.n_count = BodyCount(input, Len(input), NBytes)

\* a finalized stream whose body holds a '\r' between two counted bytes
C5_Witness ==
    /\ Done
    /\ results.total_length = 2
    /\ BodyCount(input, Len(input), {CR}) = 1
    /\ input[Len(input)] \notin SkipBytes

(***************************************************************************)
(* C6  Line-ending independence: replacing any subset of the '\n' of a     *)
(* stream by "\r\n" gives an AnalysisResults with the same total_length,   *)
(* sequence_count, gc_count, n_count, contig extremes and N25/N50/N75.     *)
(***************************************************************************)
RECURSIVE CrLf(_, _, _)
\* s[i..] with "\r\n" in the place of the '\n' at the positions of S
CrLf(s, S, i) ==
    IF i > Len(s) THEN <<>>
    ELSE (IF i \in S THEN <<CR, NL>> ELSE <<s[i]>>) \o CrLf(s, S, i + 1)

NlPositions(s) == {i \in DOMAIN s : s[i] = NL}

C6_LineEndingIndependence ==
    Done =>
        \A S \in SUBSET NlPositions(input) :
            process_buffer(CrLf(input, S, 1), Fresh, no_simd, cpu) = results

\* a finalized stream with one "\r\n" and one bare '\n', and a counted body
C6_Witness ==
    /\ Done
    /\ results.total_length > 0
    /\ \E i \in NlPositions(input) : i > 1 /\ input[i - 1] = CR
    /\ \E i \in NlPositions(input) : i = 1 \/ input[i - 1] # CR

(***************************************************************************)
(* C7  The finalized sequence_count is the number of header lines of the   *)
(* stream, headers with an empty body included: a lone header gives 1, and *)
(* a final header with no body is still counted.                           *)
(***************************************************************************)
C7_SequenceCountIsHeaderCount ==
    Done => results.sequence_count = HeadersUpTo(input, Len(input))

(***************************************************************************)
(* C8  A stream with no header (empty, or with no '>' at a line start)     *)
(* yields sequence_count, total_length, gc_count, n_count, largest_contig  *)
(* and all N-statistics 0 and shortest_contig = usize::MAX, on the         *)
(* in-memory path and on the buffered-reader path.                         *)
(***************************************************************************)
C8_ZeroHeaders ==
    (Done /\ HeadersUpTo(input, Len(input)) = 0) =>
        /\ results = Fresh
        /\ results.shortest_contig = UsizeMax

\* process_reader has finalized a stream of GC letters, '>' and newlines
\* that has no header
C8_Witness ==
    /\ Done
    /\ via = "process_reader"
    /\ HeadersUpTo(input, Len(input)) = 0
    /\ {71, GT, NL} \subseteq Bytes(input)

(***************************************************************************)
(* C9  A final record that is not terminated by a newline is counted in    *)
(* full: when the last record has a non-empty body, the result without the *)
(* trailing '\n' equals the result with it, and the pending                *)
(* current_sequence_length > 0 is pushed as the last record.               *)
(***************************************************************************)
\* the same stream with its trailing '\n' removed, or added when it has none
OtherEnding(s) ==
    IF s[Len(s)] = NL THEN SubSeq(s, 1, Len(s) - 1) ELSE Append(s, NL)

\* the last record of the stream has bytes in its body
LastBodyNonEmpty(s) ==
    \E i \in BodyPositions(s, Len(s)) :
        HeadersUpTo(s, i) = HeadersUpTo(s, Len(s))

C9_NoTrailingNewline ==
    Done =>
        /\ LastBodyNonEmpty(input) =>
              results = process_buffer(OtherEnding(input), Fresh, no_simd, cpu)
        /\ parser.current_sequence_length > 0 =>
              /\ results.sequence_count = Len(parser.lengths) + 1
              /\ results.total_length
                    = SumSeq(parser.lengths) + parser.current_sequence_length
              /\ results.largest_contig >= parser.current_sequence_length

\* process_reader has finalized a stream of two records whose last byte is
\* a counted byte of the second record
C9_Witness ==
    /\ Done
    /\ via = "process_reader"
    /\ parser.current_sequence_length > 0
    /\ Len(parser.lengths) = 1
    /\ input[Len(input)] \notin SkipBytes

(***************************************************************************)
(* C10  Zero-length records are excluded from the contig extremes: when    *)
(* the stream has a record with a non-empty body, shortest_contig is the   *)
(* minimum over the non-empty records and is never 0, wherever the empty   *)
(* record sits in the stream.                                              *)
(***************************************************************************)
\* the lengths of the records with a non-empty body
NonEmptyLengths(s) ==
    LET ls == RecordLengths(s, Len(s))
    IN  {ls[r] : r \in {q \in DOMAIN ls : ls[q] > 0}}

SetMin(S) == CHOOSE x \in S : \A y \in S : x <= y

C10_ZeroLengthExcluded ==
    (Done /\ NonEmptyLengths(input) # {}) =>
        /\ results.shortest_contig = SetMin(NonEmptyLengths(input))
        /\ results.shortest_contig # 0


(***************************************************************************)
(* What a list of record lengths contains, independently of the reducer.   *)
(***************************************************************************)
RECURSIVE PlainSum(_, _)
\* l[1] + ... + l[k]
PlainSum(l, k) == IF k = 0 THEN 0 ELSE l[k] + PlainSum(l, k - 1)

Total(l) == PlainSum(l, Len(l))

\* the k-th largest entry of l, 1 <= k <= Len(l)
RankValue(l, k) ==
    CHOOSE v \in {l[j] : j \in 1..Len(l)} :
        /\ Cardinality({j \in 1..Len(l) : l[j] > v}) < k
        /\ k <= Cardinality({j \in 1..Len(l) : l[j] >= v})

RECURSIVE TopSum(_, _)
\* the cumulative length of the k largest entries of l
TopSum(l, k) == IF k = 0 THEN 0 ELSE RankValue(l, k) + TopSum(l, k - 1)

\* the first rank at which the running sum of the descending list reaches thr
FirstReach(l, thr) ==
    CHOOSE k \in 1..Len(l) :
        /\ TopSum(l, k) >= thr
        /\ \A j \in 1..(k - 1) : TopSum(l, j) < thr

Reduced == pc = "reduced"

\* C11: for every non-empty list of record lengths given to calculate_stats
\* on a fresh result, total_length is the sum, sequence_count the number of
\* entries, largest_contig the maximum, shortest_contig the minimum, and
\* N25 / N50 / N75 are the entries of the descending list at the first rank
\* where the running sum reaches total/4, total/2, total*3/4 (truncating),
\* each paired with that 1-based rank.
C11_CalculateStats ==
    (Reduced /\ rec_lengths # <<>>) =>
        LET n == Len(rec_lengths)
            total == Total(rec_lengths)
            k25 == FirstReach(rec_lengths, total \div 4)
            k50 == FirstReach(rec_lengths, total \div 2)
            k75 == FirstReach(rec_lengths, (total * 3) \div 4)
        IN  /\ results.total_length = total
            /\ results.sequence_count = n
            /\ results.largest_contig = RankValue(rec_lengths, 1)
            /\ results.shortest_contig = RankValue(rec_lengths, n)
            /\ results.n25 = RankValue(rec_lengths, k25)
            /\ results.n25_sequence_count = k25
            /\ results.n50 = RankValue(rec_lengths, k50)
            /\ results.n50_sequence_count = k50
            /\ results.n75 = RankValue(rec_lengths, k75)
            /\ results.n75_sequence_count = k75

\* the list of the test has been reduced to 400/1, 300/2, 200/3
C11_Witness ==
    /\ Reduced
    /\ rec_lengths = TestLengths
    /\ results.largest_contig = 400
    /\ results.shortest_contig = 100
    /\ <<results.n25, results.n25_sequence_count>> = <<400, 1>>
    /\ <<results.n50, results.n50_sequence_count>> = <<300, 2>>
    /\ <<results.n75, results.n75_sequence_count>> = <<200, 3>>

\* the reported N value is the shortest of the k largest records
ShortestOfTop(l, k, v) ==
    /\ k \in 1..Len(l)
    /\ v = RankValue(l, k)
    /\ \A j \in 1..k : RankValue(l, j) >= v

\* C12 as stated: for every list with positive total, the k largest records,
\* k the reported n25 / n50 / n75_sequence_count, cover at least 25% / 50% /
\* 75% of total_length (4*sum >= total, 2*sum >= total, 4*sum >= 3*total)
\* and the reported N value is the shortest of those k records.
C12_Original ==
    (Reduced /\ Total(rec_lengths) > 0) =>
        LET total == Total(rec_lengths)
        IN  /\ 4 * TopSum(rec_lengths, results.n25_sequence_count) >= total
            /\ 2 * TopSum(rec_lengths, results.n50_sequence_count) >= total
            /\ 4 * TopSum(rec_lengths, results.n75_sequence_count) >= 3 * total
            /\ ShortestOfTop(rec_lengths, results.n25_sequence_count, results.n25)
            /\ ShortestOfTop(rec_lengths, results.n50_sequence_count, results.n50)
            /\ ShortestOfTop(rec_lengths, results.n75_sequence_count, results.n75)

\* C12 (amended): for every list with positive total, the k largest records,
\* k the reported n25 / n50 / n75_sequence_count, have a cumulative length
\* of at least the truncated thresholds total div 4, total div 2 and
\* (3 * total) div 4, and the reported N value is the shortest of those k
\* records.
C12_TruncatedCoverage ==
    (Reduced /\ Total(rec_lengths) > 0) =>
        LET total == Total(rec_lengths)
        IN  /\ TopSum(rec_lengths, results.n25_sequence_count) >= total \div 4
            /\ TopSum(rec_lengths, results.n50_sequence_count) >= total \div 2
            /\ TopSum(rec_lengths, results.n75_sequence_count)
                    >= (3 * total) \div 4
            /\ ShortestOfTop(rec_lengths, results.n25_sequence_count, results.n25)
            /\ ShortestOfTop(rec_lengths, results.n50_sequence_count, results.n50)
            /\ ShortestOfTop(rec_lengths, results.n75_sequence_count, results.n75)

\* a reduced list whose reported N50 records cover less than half of the
\* total, and no less than the truncated half
C12_Witness ==
    /\ Reduced
    /\ Total(rec_lengths) > 0
    /\ results.n50_sequence_count >= 1
    /\ 2 * TopSum(rec_lengths, results.n50_sequence_count) < Total(rec_lengths)
    /\ TopSum(rec_lengths, results.n50_sequence_count) >= Total(rec_lengths) \div 2


\* the record lengths the parser has pushed once finish has run: those
\* pushed by feed, and the pending one finish pushes when it is positive
Pushed ==
    IF parser.current_sequence_length > 0
    THEN Append(parser.lengths, parser.current_sequence_length)
    ELSE parser.lengths

\* C13: every finalized AnalysisResults produced by the byte-stream parser
\* has total_length = the sum of all record lengths the parser pushed, and
\* gc_count + n_count <= total_length, for every input and chunking.
C13_TotalIsSumOfRecords ==
    Done =>
        /\ results.total_length = Total(Pushed)
        /\ results.gc_count + results.n_count <= results.total_length

\* a finalized stream fed in more than one chunk, with two records pushed
\* and a byte that is neither GC nor N
C13_Witness ==
    /\ Done
    /\ via \in {"feed", "process_reader"}
    /\ Len(Pushed) = 2
    /\ results.gc_count + results.n_count < results.total_length


(***************************************************************************)
(* What a file is, read off its descriptor independently of the adapters.  *)
(***************************************************************************)
Adapted == pc = "adapted"

\* the extension a reader of the name sees
DeclaredExt(path) ==
    PathTable[CHOOSE k \in 1..Len(PathTable) : PathTable[k].path = path].ext

\* the format each extension stands for
FormatOf(ext) ==
    CASE ext \in {"fa", "fasta", "fna"} -> "Fasta"
      [] ext = "gz"                     -> "Gzip"
      [] ext = "xz"                     -> "Xz"
      [] ext = "bz2"                    -> "Bzip2"
      [] ext \in {"bgz", "bgzip"}       -> "Bgzip"
      [] ext = "zip"                    -> "Zip"
      [] ext = "naf"                    -> "Naf"
      [] OTHER                          -> "Unknown"

\* C14: the format of a stream is a function of its file extension only
\* (fa/fasta/fna plain, gz gzip, xz xz, bz2 bzip2, bgz/bgzip block-gzip, zip
\* archive, naf nucleotide archive); any other or missing extension is
\* Unknown, and process_any_file on an Unknown path returns Ok with an empty
\* list, without opening the file and without reporting an error.
C14_FormatByExtension ==
    Adapted =>
        /\ any_format = FormatOf(DeclaredExt(any_file.path))
        /\ any_format = "Unknown" =>
                /\ any_out.tag = "Ok"
                /\ any_out.vec = <<>>
                /\ ~any_out.opened
                /\ any_out.stderr = <<>>

\* a readable file full of FASTA whose name carries no known extension has
\* been skipped
C14_Witness ==
    /\ Adapted
    /\ any_format = "Unknown"
    /\ DeclaredExt(any_file.path) = ""
    /\ any_file.open_ok
    /\ any_file.src = [fills |-> <<FastaA>>, end |-> "eof"]
    /\ any_out.tag = "Ok"
    /\ any_out.vec = <<>>
    /\ ~any_out.opened

\* the source of a single-stream file fails: it cannot be opened, or a
\* fill_buf call of its reader returns an error
SourceFails(f) ==
    \/ ~f.open_ok
    \/ /\ f.src.end = "err"
       /\ FormatOf(DeclaredExt(f.path)) = "Fasta" => ~f.mmap_ok

\* C16: a single-stream adapter (plain, gzip, xz, bzip2, bgzip) whose source
\* fails at any point (open failure, or an error on any fill_buf call, even
\* after earlier chunks were parsed) returns Err and emits no
\* AnalysisResults; a partially accumulated result is never returned as Ok.
C16_FailingSourceIsErr ==
    (/\ Adapted
     /\ any_format \in {"Fasta", "Gzip", "Xz", "Bzip2", "Bgzip"}
     /\ SourceFails(any_file))
        => any_out.tag = "Err"

\* a gzip stream that failed after its first buffer had been parsed
C16_Witness ==
    /\ Adapted
    /\ any_format = "Gzip"
    /\ any_file.open_ok
    /\ Len(any_file.src.fills) >= 1
    /\ any_file.src.end = "err"
    /\ any_out.tag = "Err"

\* the name of an archive member has the extension .fa, .fasta or .fna
HasFastaExtension(name) ==
    \E e \in {<<"f", "a">>, <<"f", "a", "s", "t", "a">>, <<"f", "n", "a">>} :
        /\ Len(name) > Len(e) + 1
        /\ SubSeq(name, Len(name) - Len(e), Len(name)) = <<".">> \o e

\* member m of an archive is a FASTA member that decodes cleanly
CleanMember(m) ==
    /\ m.index_ok
    /\ m.is_file
    /\ HasFastaExtension(m.name)
    /\ m.src.end = "eof"

\* C17: process_zip_file yields one AnalysisResults per qualifying member,
\* and a failure on one member (while opening the entry by index or while
\* reading its bytes) never removes or blocks the results of the other
\* members: every member that decodes cleanly appears in the returned list.
C17_ZipMemberIsolation ==
    (/\ Adapted
     /\ any_format = "Zip"
     /\ any_file.open_ok
     /\ any_file.archive.ok)
        => \A i \in 1..Len(any_file.archive.members) :
              LET m == any_file.archive.members[i]
              IN  CleanMember(m) =>
                    /\ any_out.tag = "Ok"
                    /\ \E k \in 1..Len(any_out.vec) :
                          any_out.vec[k] =
                              Labelled(file_name(m.name)[1],
                                  process_buffer(
                                      Concat(m.src.fills, Len(m.src.fills)),
                                      Fresh, no_simd, cpu))

\* C18: inside a zip archive only regular-file members whose name has the
\* extension .fa, .fasta or .fna are processed; a member with any other name
\* (one that merely ends in the letters 'fa', 'fasta' or 'fna' included)
\* produces no AnalysisResults.
C18_ZipOnlyFastaExtensions ==
    (Adapted /\ any_format = "Zip" /\ any_out.tag = "Ok") =>
        \A k \in 1..Len(any_out.vec) :
            \E i \in 1..Len(any_file.archive.members) :
                LET m == any_file.archive.members[i]
                IN  /\ m.is_file
                    /\ HasFastaExtension(m.name)
                    /\ file_name(m.name)[1] = any_out.vec[k].filename

\* the integer nearest to num / den, a half going up
Nearest(num, den) ==
    CHOOSE m \in 0..num :
        2 * den * m - den <= 2 * num /\ 2 * num < 2 * den * m + den

\* max(round(0.9 * logical CPUs), round(0.75 * physical cores))
UsableEstimate ==
    Max(Nearest(9 * topo.logical, 10), Nearest(3 * topo.physical, 4))

Sized == pc = "threads_done"

\* C19 as stated: determine_threads returns the explicit count when there
\* is one; otherwise the larger of round(0.9 * logical CPUs) and
\* round(0.75 * physical cores), clamped to the number of streams, and that
\* count is at most the number of streams and at least 1 for every list,
\* the empty one included.
C19_Original ==
    Sized =>
        /\ opt_threads # NoneOpt => pool = opt_threads[1]
        /\ opt_threads = NoneOpt =>
              /\ pool = Min(UsableEstimate, Len(batch))
              /\ pool <= Len(batch)
              /\ pool >= 1

\* C19, amended: determine_threads returns the explicit count when there
\* is one; otherwise the larger of round(0.9 * logical CPUs) and
\* round(0.75 * physical cores), clamped from above to the number of
\* streams: at most the number of streams, at least 1 when the list is not
\* empty, and 0 when it is empty.
C19_DerivedCount ==
    Sized =>
        /\ opt_threads # NoneOpt => pool = opt_threads[1]
        /\ opt_threads = NoneOpt =>
              /\ pool = Min(UsableEstimate, Len(batch))
              /\ pool <= Len(batch)
              /\ Len(batch) >= 1 => pool >= 1
              /\ Len(batch) = 0 => pool = 0

\* three files on a host with one logical CPU and three physical cores:
\* the estimate is round(2.25) = 2, below the number of files
C19_Witness ==
    /\ Sized
    /\ opt_threads = NoneOpt
    /\ Len(batch) = 3
    /\ topo = [logical |-> 1, physical |-> 3]
    /\ pool = 2

Returned == pc = "returned"

\* the number of places of seq that hold x
Occurrences(x, seq) == Cardinality({k \in 1..Len(seq) : seq[k] = x})

\* the two sequences hold the same elements the same number of times
SameElements(s1, s2) ==
    /\ Len(s1) = Len(s2)
    /\ \A k \in 1..Len(s1) : Occurrences(s1[k], s1) = Occurrences(s1[k], s2)

\* the extensions process_files has a function for
Supported(file) ==
    \/ ExtOrEmpty(file.path) \in {<<"g", "z">>, <<"z", "i", "p">>,
                                   <<"x", "z">>, <<"b", "z", "2">>,
                                   <<"b", "g", "z">>,
                                   <<"b", "g", "z", "i", "p">>}
    \/ IsValidExt(ExtOrEmpty(file.path))

\* the stream cannot be opened
Unavailable(file) == ~file.open_ok

\* the stream opens and its decoder fails before its end
Corrupt(file) ==
    /\ file.open_ok
    /\ IF ExtOrEmpty(file.path) = <<"z", "i", "p">>
       THEN ~file.archive.ok
       ELSE ReadAll(file.src, 1, <<>>).tag = "Err"

FailingStreams ==
    {i \in 1..Len(batch) :
        Supported(batch[i]) /\ (Unavailable(batch[i]) \/ Corrupt(batch[i]))}

RECURSIVE ResultsAlone(_)
\* what the streams of the first k places yield when each is processed
\* alone, the failing ones yielding nothing
ResultsAlone(k) ==
    IF k = 0 THEN <<>>
    ELSE ResultsAlone(k - 1)
         \o (IF k \in FailingStreams THEN <<>> ELSE FileTask(batch[k]).vec)

\* the errors reported for the stream at place i
ErrorsFor(i) == {k \in 1..Len(errlog) : errlog[k].task = i}

\* C15: when process_files has returned, the collected results are exactly
\* the results of the streams that did not fail, each as the stream yields
\* it alone, and exactly one error has been reported for every stream that
\* failed; a corrupt gzip stream with two valid plain streams gives two
\* results and one reported error.
C15_PartialFailureIsolation ==
    Returned =>
        /\ SameElements(collected, ResultsAlone(Len(batch)))
        /\ \A i \in FailingStreams : Cardinality(ErrorsFor(i)) = 1
        /\ batch = <<CorruptGz, PlainMapped, PlainBuffered>> =>
              Len(collected) = 2 /\ Len(errlog) = 1

RECURSIVE ResultsOfAll(_)
\* the results of the streams of the first k places, each taken once
ResultsOfAll(k) ==
    IF k = 0 THEN <<>> ELSE ResultsOfAll(k - 1) \o FileTask(batch[k]).vec

\* C20: a task that runs can complete whatever the other tasks do, the
\* collection is empty until every task has completed, and it then holds
\* the results of every stream exactly once.
C20_FanIn ==
    /\ \A i \in 1..Len(tasks) :
          tasks[i].st = "running" => ENABLED TaskComplete(i)
    /\ ~Returned => collected = <<>>
    /\ Returned =>
          /\ \A i \in 1..Len(tasks) : tasks[i].st = "done"
          /\ Len(tasks) = Len(batch)
          /\ SameElements(collected, ResultsOfAll(Len(batch)))

\* two valid plain streams and a corrupt one; the second task completed
\* first, the corrupt one last, and the collection holds both results
C20_Witness ==
    /\ Returned
    /\ batch = <<PlainMapped, PlainBuffered, CorruptGz>>
    /\ done_order = <<2, 1, 3>>
    /\ Len(collected) = 2
    /\ Occurrences(collected[1], collected) = 1

\* a word of the machine
IsUsize(x) == x \in 0..UsizeMax

\* the parser is one of the states the struct can hold
ParserOk ==
    /\ parser.in_header \in BOOLEAN
    /\ parser.last_char_was_newline \in BOOLEAN
    /\ parser.started \in BOOLEAN
    /\ IsUsize(parser.current_sequence_length)
    /\ \A k \in 1..Len(parser.lengths) : IsUsize(parser.lengths[k])

\* C21: whatever the chunks are (empty, ending in '\n', starting with '>',
\* without a newline, holding the bytes 0 and 255), no index and no range
\* of feed is out of bounds, consumed never passes the end of the chunk,
\* and the parser and the counts stay values of their types.
C21_ParserTotal ==
    /\ ~feed_fault
    /\ feed_consumed <= Len(feed_data)
    /\ ParserOk
    /\ IsUsize(results.sequence_count)
    /\ IsUsize(results.total_length)

\* a chunk that ends in '\n' after the byte 255 has been taken by the
\* sequence arm in one turn, inside a record
C21_Witness ==
    /\ pc = "turn"
    /\ feed_data = <<255, NL>>
    /\ feed_consumed = 2
    /\ feed_iters = 1
    /\ parser.started
    /\ parser.last_char_was_newline

\* the bytes of the stream feed has consumed so far
ConsumedSoFar == IF pc = "turn" THEN pos + feed_consumed ELSE pos

\* nothing has been consumed, or the last byte consumed was '\n'
AtLineStart == ConsumedSoFar = 0 \/ input[ConsumedSoFar] = NL

\* the step is the first turn of a feed call whose chunk starts with '>'
FirstTurnOnGt ==
    /\ pc = "turn"
    /\ feed_iters = 0
    /\ feed_iters' = 1
    /\ feed_data # <<>>
    /\ feed_data[1] = GT

\* the step takes one byte as the start of a header
HeaderRecognised ==
    /\ results'.sequence_count = results.sequence_count + 1
    /\ parser'.in_header
    /\ feed_consumed' = feed_consumed + 1

\* C22: between two feed calls, and between two turns of a call,
\* last_char_was_newline is set exactly when no byte has been consumed or
\* the last byte consumed was '\n'; and a '>' that is the first byte of a
\* chunk is taken as a header exactly when the stream starts there or the
\* previous chunk ended with '\n', and the parser is not inside a header.
C22_LineStartFlag ==
    /\ [](pc \in {"fed", "turn"} =>
            (parser.last_char_was_newline <=> AtLineStart))
    /\ [][FirstTurnOnGt =>
            (HeaderRecognised <=> (AtLineStart /\ ~parser.in_header))]_vars

\* the second chunk is a '>' that follows the '\n' the first chunk ended
\* with: it has been taken as the second header
C22_Witness ==
    /\ pc = "turn"
    /\ pos > 0
    /\ input[pos] = NL
    /\ feed_data = <<GT>>
    /\ feed_consumed = 1
    /\ parser.in_header
    /\ results.sequence_count = 2

\* feed is between two calls or between two turns of a call
Feeding == pc \in {"fed", "turn"}

\* the bytes counted into the records so far
CountedSoFar ==
    PlainSum(parser.lengths, Len(parser.lengths))
    + parser.current_sequence_length

\* C23: only a '>' at the start of the stream or right after a '\n' is a
\* header: sequence_count is the number of such bytes consumed, a record is
\* closed by each of them but the first, every other '>' of a body is one
\* of the counted sequence characters, and the parser is inside a header
\* only on a header line that has not ended, so a '\n' of a body leaves it
\* in the sequence state.
C23_HeaderOnlyAtLineStart ==
    Feeding =>
        /\ results.sequence_count = HeadersUpTo(input, ConsumedSoFar)
        /\ Len(parser.lengths)
              = Max(HeadersUpTo(input, ConsumedSoFar), 1) - 1
        /\ CountedSoFar
              = BodyCount(input, ConsumedSoFar, (0..255) \ SkipBytes)
        /\ parser.in_header
              <=> /\ ConsumedSoFar >= 1
                  /\ InHeaderLine(input, ConsumedSoFar)
                  /\ input[ConsumedSoFar] # NL

\* ">\nG>" has been fed: the second '>' is in the body, one header has been
\* counted and the record holds two characters
C23_Witness ==
    /\ pc = "fed"
    /\ input = <<GT, NL, 71, GT>>
    /\ pos = 4
    /\ results.sequence_count = 1
    /\ parser.lengths = <<>>
    /\ parser.current_sequence_length = 2
    /\ ~parser.in_header

\* C25: while a fresh parser is fed, in_header implies started; before the
\* first header the current length is 0, lengths is empty and gc_count and
\* n_count are 0; and sequence_count is the number of lengths pushed, plus
\* one once started.
C25_ParserInvariants ==
    Feeding =>
        /\ parser.in_header => parser.started
        /\ ~parser.started =>
              /\ parser.current_sequence_length = 0
              /\ parser.lengths = <<>>
              /\ results.gc_count = 0
              /\ results.n_count = 0
        /\ results.sequence_count
              = Len(parser.lengths) + (IF parser.started THEN 1 ELSE 0)

\* a 'G' before the first header has been consumed and nothing was counted
C25_Witness ==
    /\ pc = "turn"
    /\ feed_data = <<71, NL>>
    /\ feed_consumed = 2
    /\ pos = 0
    /\ ~parser.started
    /\ results.sequence_count = 0

RECURSIVE GoodMemberNames(_, _)
\* the names of the members among the first k that give a result, in the
\* order of the archive index
GoodMemberNames(members, k) ==
    IF k = 0 THEN <<>>
    ELSE GoodMemberNames(members, k - 1)
         \o (IF /\ members[k].is_file
                /\ EndsWithValidExt(members[k].name)
                /\ ReadAll(members[k].src, 1, <<>>).tag = "Ok"
             THEN <<file_name(members[k].name)[1]>>
             ELSE <<>>)

\* the names of the results a file contributes
ExpectedNames(file) ==
    IF ~Supported(file) \/ Unavailable(file) \/ Corrupt(file) THEN <<>>
    ELSE IF ExtOrEmpty(file.path) = <<"z", "i", "p">>
    THEN IF \E k \in 1..Len(file.archive.members) :
                ~file.archive.members[k].index_ok
         THEN <<>>
         ELSE GoodMemberNames(file.archive.members,
                              Len(file.archive.members))
    ELSE <<file_name(file.path)[1]>>

RECURSIVE ExpectedNamesOfAll(_)
\* ... and the first k files of the list, in the order of the list
ExpectedNamesOfAll(k) ==
    IF k = 0 THEN <<>>
    ELSE ExpectedNamesOfAll(k - 1) \o ExpectedNames(batch[k])

\* C24: whatever the thread count and the order in which the tasks ran,
\* process_files returns the results in the order of the input list, the
\* members of a zip in the order of its index at the place of the zip.
C24_InputOrder ==
    Returned =>
        /\ collected = ResultsOfAll(Len(batch))
        /\ [k \in 1..Len(collected) |-> collected[k].filename]
              = ExpectedNamesOfAll(Len(batch))

\* the archive is first in the list and its task completed last: its two
\* members come first, in index order, then the plain file
C24_Witness ==
    /\ Returned
    /\ batch = <<ZipClean, PlainBuffered>>
    /\ done_order = <<2, 1>>
    /\ [k \in 1..Len(collected) |-> collected[k].filename]
          = << <<"c", ".", "f", "n", "a">>, <<"a", ".", "f", "a">>,
               <<"b", ".", "f", "a", "s", "t", "a">> >>

\* C26: in a finalized AnalysisResults with sequence_count >= 1,
\* shortest_contig is at most largest_contig, and shortest_contig is the
\* sentinel usize::MAX only when sequence_count is 0.
C26_ShortestAtMostLargest ==
    Done =>
        /\ results.sequence_count >= 1 =>
              results.shortest_contig <= results.largest_contig
        /\ results.shortest_contig = UsizeMax => results.sequence_count = 0

\* C27: after calculate_stats on a list with positive total whose triple
\* fits the machine word, shortest_contig <= n75 <= n50 <= n25 <=
\* largest_contig, 1 <= n25_sequence_count <= n50_sequence_count <=
\* n75_sequence_count <= the number of records, and the three N values are
\* not zero, zero-length entries or not.
C27_NValueOrder ==
    (Reduced /\ Total(rec_lengths) > 0 /\ 3 * Total(rec_lengths) <= UsizeMax)
    =>
        /\ results.shortest_contig <= results.n75
        /\ results.n75 <= results.n50
        /\ results.n50 <= results.n25
        /\ results.n25 <= results.largest_contig
        /\ 1 <= results.n25_sequence_count
        /\ results.n25_sequence_count <= results.n50_sequence_count
        /\ results.n50_sequence_count <= results.n75_sequence_count
        /\ results.n75_sequence_count <= Len(rec_lengths)
        /\ results.n25 > 0
        /\ results.n50 > 0
        /\ results.n75 > 0

\* a list with a zero-length entry has been reduced: the N values differ
\* and none is zero
C27_Witness ==
    /\ Reduced
    /\ rec_lengths = <<0, 3, 2, 1>>
    /\ results.shortest_contig = 0
    /\ results.n25 = 3
    /\ results.n75 = 2
    /\ results.n75_sequence_count = 2

\* the step is a turn of the outer loop of feed
IsTurn == pc = "turn" /\ feed_iters' = feed_iters + 1

\* the next turn is one of the sequence arm
InSequenceArm ==
    /\ pc = "turn"
    /\ feed_consumed < Len(feed_data)
    /\ ~parser.in_header
    /\ ~(parser.last_char_was_newline /\ At(feed_data, feed_consumed) = GT)

\* every entry of s is larger than the one before
StrictlyIncreasing(s) == \A k \in 1..(Len(s) - 1) : s[k] < s[k + 1]

\* C28: every turn of the outer loop of feed, whatever its arm, increases
\* consumed by at least 1 and not beyond len; the inner search for "\n>"
\* moves search_pos forward at every memchr call; so a call makes at most
\* len turns, and it returns, with consumed = len.
C28_FeedTerminates ==
    /\ [][IsTurn =>
            /\ feed_consumed' >= feed_consumed + 1
            /\ feed_consumed' <= Len(feed_data)]_vars
    /\ [](InSequenceArm =>
            /\ StrictlyIncreasing(SearchTrace(feed_data, feed_consumed))
            /\ SearchTrace(feed_data, feed_consumed)[1] = feed_consumed)
    /\ [](feed_iters <= Len(feed_data))
    /\ [](pc = "fed" => feed_consumed = Len(feed_data))
    /\ (pc = "turn" ~> pc = "fed")

\* a call on three bytes has returned after three turns, one of each arm
C28_Witness ==
    /\ pc = "fed"
    /\ feed_data = <<GT, NL, 71>>
    /\ feed_iters = 3
    /\ feed_consumed = 3
    /\ pos = 3


\* C29: the N75 threshold total_length * 3 / 4, computed in the machine word,
\* equals floor(3 * total_length / 4) for every total a stream can produce
\* (every list whose sum fits the word), so the n75 and the rank reported by
\* calculate_stats and by calc_nq_stats are the entry and the rank at which
\* the running sum of the descending list first reaches the exact threshold.
C29_ThresholdNeverWraps ==
    (Reduced /\ rec_lengths # <<>> /\ Total(rec_lengths) <= UsizeMax) =>
        LET total == Total(rec_lengths)
            exact == (3 * total) \div 4
            k75   == FirstReach(rec_lengths, exact)
            nq    == calc_nq_stats(rec_lengths, AnalysisResultsNew)
        IN  /\ results.total_length = total
            /\ N75Threshold(results.total_length) = exact
            /\ results.n75 = RankValue(rec_lengths, k75)
            /\ results.n75_sequence_count = k75
            /\ nq.n75 = RankValue(rec_lengths, k75)
            /\ nq.n75_sequence_count = k75


\* the lanes of an accumulator after the vector v is added, not reduced
\* modulo 2^8
LanesPlus(acc, v, mask) ==
    [j \in 0..15 |-> acc[j] + (IF LaneMask(mask, At(v, j)) THEN 1 ELSE 0)]

LanesAtMost(acc, m) == \A j \in 0..15 : acc[j] <= m

\* what a reduction of the accumulators gc, n, sk after blocks vectors adds
\* to the totals
Reduction(gc, n, sk, blocks) ==
    <<vaddlvq_u8(gc), vaddlvq_u8(n), 16 * blocks - vaddlvq_u8(sk)>>

IsNeonLoad == pc = "neon" /\ neon_done' = neon_done + 1

IsNeonFinal == pc = "neon" /\ pc' = "neon_done"

\* C30: in update_stats_neon the three per-lane 8-bit accumulators never
\* wrap.  While the loop runs iter_count is below 255 and no lane exceeds
\* it; a vector adds 0 or 1 to each lane and the sum stays within 8 bits;
\* the accumulators are reduced and reset exactly when iter_count reaches
\* 255; at every reduction each lane is at most 255, each horizontal sum at
\* most 4080, and the totals grow by the sums, seq_chars by 16 times the
\* vectors since the last reset minus the skipped count, so that the totals
\* agree with update_stats_scalar on the same vectors.
C30_NeonAccumulators ==
    /\ [](pc = "neon" =>
            /\ neon_st.iter \in 0..254
            /\ LanesAtMost(neon_st.gc, neon_st.iter)
            /\ LanesAtMost(neon_st.n, neon_st.iter)
            /\ LanesAtMost(neon_st.sk, neon_st.iter)
            /\ Add3(neon_st.tot,
                    Reduction(neon_st.gc, neon_st.n, neon_st.sk, neon_st.iter))
                 = neon_scalar)
    /\ [][IsNeonLoad =>
            LET gc == LanesPlus(neon_st.gc, neon_chunk', "is_gc")
                n  == LanesPlus(neon_st.n, neon_chunk', "is_n")
                sk == LanesPlus(neon_st.sk, neon_chunk', "is_skipped")
            IN  /\ LanesAtMost(gc, 255)
                /\ LanesAtMost(n, 255)
                /\ LanesAtMost(sk, 255)
                /\ IF neon_st.iter = 254
                   THEN /\ neon_st'.iter = 0
                        /\ neon_st'.gc = ZeroLanes
                        /\ neon_st'.n = ZeroLanes
                        /\ neon_st'.sk = ZeroLanes
                        /\ vaddlvq_u8(gc) <= 4080
                        /\ vaddlvq_u8(n) <= 4080
                        /\ vaddlvq_u8(sk) <= 4080
                        /\ neon_st'.tot
                             = Add3(neon_st.tot, Reduction(gc, n, sk, 255))
                   ELSE /\ neon_st'.iter = neon_st.iter + 1
                        /\ neon_st'.gc = gc
                        /\ neon_st'.n = n
                        /\ neon_st'.sk = sk
                        /\ neon_st'.tot = neon_st.tot]_vars
    /\ [][IsNeonFinal =>
            /\ vaddlvq_u8(neon_st.gc) <= 4080
            /\ vaddlvq_u8(neon_st.n) <= 4080
            /\ vaddlvq_u8(neon_st.sk) <= 4080
            /\ neon_st'.tot
                 = Add3(neon_st.tot,
                        Reduction(neon_st.gc, neon_st.n, neon_st.sk,
                                  neon_st.iter))
            /\ neon_st'.tot = neon_scalar]_vars

\* 255 vectors of 'G' have been taken: every lane of v_gc_acc had reached
\* 255, the sum 4080 has gone to the totals and the accumulators are reset
C30_Witness ==
    /\ pc = "neon"
    /\ neon_done = 255
    /\ neon_st.iter = 0
    /\ neon_st.gc = ZeroLanes
    /\ neon_st.tot = <<4080, 0, 4080>>

=============================================================================
